---------------------------- MODULE Spec2Model ----------------------------
(***************************************************************************)
(* A model of daily_chow.solver.solve: the CP-SAT meal solver.             *)
(*                                                                         *)
(* solve is a pure function of its request.  The model follows one call:   *)
(* the request is chosen in Init, and the actions are the steps of solve   *)
(* in source order (empty-input return, model building, objective          *)
(* composition, the overflow assertion, the solver call, extraction).      *)
(*                                                                         *)
(* Three more machines share the module: the solver call with its          *)
(* auxiliary shortfall variables made explicit (aux), the HTTP application *)
(* of daily_chow.api, which calls solve (http), and the RangeBar of        *)
(* daily_chow.widgets with the inputs of its IngredientRow (bar).          *)
(*                                                                         *)
(* Real-valued inputs are held as exact decimals:                          *)
(*   - macro densities (per 100 g) in tenths of a unit,                    *)
(*   - micro densities (per 100 g) in thousandths of a unit,               *)
(*   - micro targets and ULs in hundred-thousandths of a unit.             *)
(* Python's round() is round-half-to-even; Python integers are unbounded,  *)
(* so the weight chain is computed on arbitrary-size naturals.             *)
(***************************************************************************)
EXTENDS Integers, Sequences, FiniteSets, TLC

VARIABLES req, pc, gram_vars, terms, weights, max_obj, cp_status, value,
          solution, solver_calls, aux, http, bar

vars == <<req, pc, gram_vars, terms, weights, max_obj, cp_status, value,
          solution, solver_calls, aux, http, bar>>

(***************************************************************************)
(* Program constants                                                       *)
(***************************************************************************)
SCALE == 100
MICRO_SCALE == 10000
PCT_SCALE == 10000
MICRO_PCT == 100
UL_PROX_SCALE == 100

PRIORITY_MICROS == "micros"
PRIORITY_MACRO_RATIO == "macro_ratio"
PRIORITY_INGREDIENT_DIVERSITY == "ingredient_diversity"
PRIORITY_TOTAL_WEIGHT == "total_weight"
DEFAULT_PRIORITIES ==
    <<PRIORITY_MICROS, PRIORITY_MACRO_RATIO, PRIORITY_INGREDIENT_DIVERSITY,
      PRIORITY_TOTAL_WEIGHT>>

\* An optional value: None is the empty set, a present value v is {v}.
None == {}

Some(v) == {v}

TheVal(o) == CHOOSE v \in o : TRUE

(***************************************************************************)
(* Integer helpers                                                         *)
(***************************************************************************)
Max2(a, b) == IF a >= b THEN a ELSE b

Abs(a) == IF a >= 0 THEN a ELSE 0 - a

\* Python round(n / d) for d > 0: nearest integer, ties to the even one.
RoundHalfEven(n, d) ==
    LET q == n \div d
        r == n - q * d
    IN  IF 2 * r < d THEN q
        ELSE IF 2 * r > d THEN q + 1
        ELSE IF q % 2 = 0 THEN q ELSE q + 1

\* The least integer p with p * d >= n, for n >= 0 and d > 0.
CeilDiv(n, d) == (n + d - 1) \div d

RECURSIVE SumOver(_, _)
\* SUM of f[i] over the finite set S (Python's sum over a generator).
SumOver(S, f) ==
    IF S = {} THEN 0
    ELSE LET i == CHOOSE j \in S : TRUE
         IN  f[i] + SumOver(S \ {i}, f)

RECURSIVE MaxOver(_, _)
\* max of f[i] over the finite set S, 0 when S is empty.
MaxOver(S, f) ==
    IF S = {} THEN 0
    ELSE LET i == CHOOSE j \in S : TRUE
         IN  Max2(f[i], MaxOver(S \ {i}, f))

(***************************************************************************)
(* Unbounded naturals: little-endian sequences of base-1000 limbs with no  *)
(* leading zero limb (0 is the empty sequence).  Python's int.             *)
(***************************************************************************)
RECURSIVE BigOfNat(_)
BigOfNat(n) == IF n = 0 THEN <<>> ELSE <<n % 1000>> \o BigOfNat(n \div 1000)

RECURSIVE BigMulAdd(_, _, _)
\* a * m + c for a Big a and machine naturals m, c.
BigMulAdd(a, m, c) ==
    IF m = 0 \/ a = <<>> THEN BigOfNat(c)
    ELSE LET t == Head(a) * m + c
         IN  IF Tail(a) = <<>> THEN BigOfNat(t)
             ELSE <<t % 1000>> \o BigMulAdd(Tail(a), m, t \div 1000)

RECURSIVE BigAddC(_, _, _)
BigAddC(a, b, c) ==
    IF a = <<>> /\ b = <<>> THEN BigOfNat(c)
    ELSE LET x == IF a = <<>> THEN 0 ELSE Head(a)
             y == IF b = <<>> THEN 0 ELSE Head(b)
             ta == IF a = <<>> THEN <<>> ELSE Tail(a)
             tb == IF b = <<>> THEN <<>> ELSE Tail(b)
             t == x + y + c
         IN  IF ta = <<>> /\ tb = <<>> THEN BigOfNat(t)
             ELSE <<t % 1000>> \o BigAddC(ta, tb, t \div 1000)

BigAdd(a, b) == BigAddC(a, b, 0)

BigLess(a, b) ==
    IF Len(a) # Len(b) THEN Len(a) < Len(b)
    ELSE \E i \in 1..Len(a) :
            /\ a[i] < b[i]
            /\ \A j \in (i + 1)..Len(a) : a[j] = b[j]

BigLeq(a, b) == a = b \/ BigLess(a, b)

\* 2**62 = 4 611 686 018 427 387 904
TWO_POW_62 == <<904, 387, 427, 18, 686, 611, 4>>

(***************************************************************************)
(* Coefficient layer                                                       *)
(***************************************************************************)
\* _scaled_coeff: round(per_100g * SCALE / 100); per_100g is d10 / 10.
ScaledCoeff(d10) == RoundHalfEven(d10 * SCALE, 10 * 100)

\* _micro_coeff: round(per_100g * MICRO_SCALE / 100); per_100g is m3 / 1000.
MicroCoeff(m3) == RoundHalfEven(m3 * MICRO_SCALE, 1000 * 100)

\* round(val * MICRO_SCALE) of a target or UL; val is v5 / 100000.
\* (val * MICRO_SCALE is v5 / (100000 / MICRO_SCALE).)
MicroScaled(v5) == RoundHalfEven(v5, 100000 \div MICRO_SCALE)

\* ing.food.micros.get(key, 0.0)
MicroGet(food, key) ==
    IF key \in DOMAIN food.micros THEN food.micros[key] ELSE 0

(***************************************************************************)
(* Model builder: decision variables and totals                            *)
(***************************************************************************)
Entries(r) == 1..Len(r.ingredients)

\* The keys of the gram_vars dict.
Keys(r) == {r.ingredients[i].key : i \in Entries(r)}

\* A dict assignment d[ing.key] = ... in a loop keeps the last entry's value.
LastIdx(r, k) ==
    CHOOSE i \in Entries(r) :
        /\ r.ingredients[i].key = k
        /\ \A j \in Entries(r) : r.ingredients[j].key = k => j <= i

\* gram_vars[ing.key] = model.new_int_var(ing.min_g, ing.max_g, ...)
GramVars(r) ==
    [k \in Keys(r) |->
        [lb |-> r.ingredients[LastIdx(r, k)].min_g,
         ub |-> r.ingredients[LastIdx(r, k)].max_g]]

\* The per-100-g field behind each macro_exprs / macro_coeff_map entry.
MacroField(nutrient) ==
    CASE nutrient = "carbs" -> "carbs_g_per_100g"
      [] nutrient = "protein" -> "protein_g_per_100g"
      [] nutrient = "fat" -> "fat_g_per_100g"
      [] nutrient = "fiber" -> "fiber_g_per_100g"
      [] nutrient = "calories" -> "calories_kcal_per_100g"

\* cal_coeffs, pro_coeffs, ...: {ing.key: _scaled_coeff(...) for ing in ...}
CoeffDict(r, fld) ==
    [k \in Keys(r) |-> ScaledCoeff(r.ingredients[LastIdx(r, k)].food[fld])]

\* total_cal, total_pro, ...: sum(coeffs[ing.key] * gram_vars[ing.key]
\* for ing in ingredients), evaluated at the gram assignment x.
TotalExpr(r, fld, x) ==
    LET c == CoeffDict(r, fld)
    IN  SumOver(Entries(r),
                [i \in Entries(r) |->
                    c[r.ingredients[i].key] * x[r.ingredients[i].key]])

\* All assignments of the gram variables within their domains.
Assignments(r) ==
    LET gv == GramVars(r)
        D == UNION {gv[k].lb..gv[k].ub : k \in Keys(r)}
    IN  {x \in [Keys(r) -> D] :
            \A k \in Keys(r) : gv[k].lb <= x[k] /\ x[k] <= gv[k].ub}

(***************************************************************************)
(* Calorie band                                                            *)
(***************************************************************************)
\* A cal_dev that cannot be negative.
CalDevDomainOneSided(r) == 0..(r.targets.cal_tolerance * SCALE)

\* cal_dev = new_int_var(-cal_tol_scaled, cal_tol_scaled, "cal_dev")

CalDevDomain(r) ==
    (0 - r.targets.cal_tolerance * SCALE)..(r.targets.cal_tolerance * SCALE)

\* A calorie constraint without tolerance.
CalOKExact(r, x) ==
    TotalExpr(r, "calories_kcal_per_100g", x)
        = r.targets.meal_calories_kcal * SCALE

\* model.add(total_cal - cal_target_scaled == cal_dev)

CalOK(r, x) ==
    (TotalExpr(r, "calories_kcal_per_100g", x)
        - r.targets.meal_calories_kcal * SCALE) \in CalDevDomain(r)

(***************************************************************************)
(* Macro constraints                                                       *)
(***************************************************************************)
\* The constraints the loop does not skip (mc.mode == "none": continue).
ActiveConstraints(r) ==
    {i \in 1..Len(r.macro_constraints) : r.macro_constraints[i].mode # "none"}

\* target_scaled = mc.grams * SCALE
MacroTarget(mc) == mc.grams * SCALE

\* expr = macro_exprs[mc.nutrient], at x
MacroTotal(r, mc, x) == TotalExpr(r, MacroField(mc.nutrient), x)

\* A hard "eq" that adds only expr >= target_scaled.
HardHoldsEqOneSided(mode, T, t) ==
    CASE mode = "gte" -> T >= t
      [] mode = "lte" -> T <= t
      [] mode = "eq" -> T >= t
      [] OTHER -> TRUE

\* The model.add calls of a hard constraint, on total T and target t.
HardHolds(mode, T, t) ==
    CASE mode = "gte" -> T >= t
      [] mode = "lte" -> T <= t
      [] mode = "eq" -> T >= t /\ T <= t
      [] OTHER -> TRUE

HardOK(r, x) ==
    \A i \in ActiveConstraints(r) :
        LET mc == r.macro_constraints[i]
        IN  mc.hard => HardHolds(mc.mode, MacroTotal(r, mc, x), MacroTarget(mc))

\* The soft (loose) constraints.
LooseIdx(r) == {i \in ActiveConstraints(r) : ~r.macro_constraints[i].hard}

\* max_possible = sum(ing.max_g * coeffs_for_nutrient[ing.key] for ing in ...)
MaxPossible(r, nutrient) ==
    LET c == CoeffDict(r, MacroField(nutrient))
    IN  SumOver(Entries(r),
                [i \in Entries(r) |->
                    r.ingredients[i].max_g * c[r.ingredients[i].key]])

\* dev_bound = max(max_possible, target_scaled)
DevBound(r, mc) == Max2(MaxPossible(r, mc.nutrient), MacroTarget(mc))

\* The least value of dev that its constraints admit at x.
LooseDevMin(r, mc, x) ==
    LET T == MacroTotal(r, mc, x)
        t == MacroTarget(mc)
    IN  CASE mc.mode = "gte" -> Max2(0, t - T)
          [] mc.mode = "lte" -> Max2(0, T - t)
          [] mc.mode = "eq" -> Abs(T - t)
          [] OTHER -> 0

\* norm_denom = max(target_scaled if mode == "gte" else dev_bound, 1)
NormDenom(r, mc) ==
    Max2(IF mc.mode = "gte" THEN MacroTarget(mc) ELSE DevBound(r, mc), 1)

\* The least pct_dev with pct_dev * norm_denom >= dev * PCT_SCALE.
LoosePct(r, mc, x) == CeilDiv(LooseDevMin(r, mc, x) * PCT_SCALE, NormDenom(r, mc))

\* dev in [0, dev_bound] (diff_var in [-dev_bound, dev_bound] for eq) and
\* pct_dev in [0, PCT_SCALE] have values at x.
LooseOK(r, x) ==
    \A i \in LooseIdx(r) :
        LET mc == r.macro_constraints[i]
        IN  /\ LooseDevMin(r, mc, x) <= DevBound(r, mc)
            /\ LoosePct(r, mc, x) <= PCT_SCALE

\* worst_loose >= every pct_dev, at its least value.
WorstLoose(r, x) ==
    MaxOver(LooseIdx(r),
            [i \in LooseIdx(r) |-> LoosePct(r, r.macro_constraints[i], x)])

(***************************************************************************)
(* Micronutrient totals, UL caps, shortfalls, UL proximity                 *)
(***************************************************************************)
\* _get_nutrient_expr: coeffs[ing.key] = c for the entries with c > 0.
NutrientCoeffs(r, key) ==
    LET has(i) == MicroCoeff(MicroGet(r.ingredients[i].food, key)) > 0
        holders == {r.ingredients[i].key : i \in {j \in Entries(r) : has(j)}}
        last(k) == CHOOSE i \in Entries(r) :
                      /\ r.ingredients[i].key = k /\ has(i)
                      /\ \A j \in Entries(r) :
                            (r.ingredients[j].key = k /\ has(j)) => j <= i
    IN  [k \in holders |->
            MicroCoeff(MicroGet(r.ingredients[last(k)].food, key))]

\* sum(coeffs[k] * gram_vars[k] for k in coeffs), or 0, at x.
NutrientExpr(r, key, x) ==
    LET c == NutrientCoeffs(r, key)
    IN  SumOver(DOMAIN c, [k \in DOMAIN c |-> c[k] * x[k]])

\* The micro_uls entries that add a constraint (ul_scaled <= 0: continue).
ULKeys(r) == {key \in DOMAIN r.micro_uls : MicroScaled(r.micro_uls[key]) > 0}

\* model.add(_get_nutrient_expr(key) <= ul_scaled)
ULOK(r, x) ==
    \A key \in ULKeys(r) :
        NutrientExpr(r, key, x) <= MicroScaled(r.micro_uls[key])

\* The micro_targets entries that are kept (target_scaled <= 0: continue).
ActiveTargets(r) ==
    {key \in DOMAIN r.micro_targets : MicroScaled(r.micro_targets[key]) > 0}

\* A shortfall that is waived for a nutrient without any coefficient.
ShortfallMinWaived(r, key, x) ==
    IF DOMAIN NutrientCoeffs(r, key) = {} THEN 0
    ELSE Max2(0, MicroScaled(r.micro_targets[key]) - NutrientExpr(r, key, x))

\* The least shortfall: shortfall >= target_scaled - total_nutrient, >= 0.

ShortfallMin(r, key, x) ==
    Max2(0, MicroScaled(r.micro_targets[key]) - NutrientExpr(r, key, x))

\* The least pct_short with pct_short * target_scaled >= shortfall * _MICRO_PCT.
PctShort(r, key, x) ==
    CeilDiv(ShortfallMin(r, key, x) * MICRO_PCT,
            MicroScaled(r.micro_targets[key]))

\* shortfall in [0, target_scaled] and pct_short in [0, _MICRO_PCT] exist.
MicroOK(r, x) ==
    \A key \in ActiveTargets(r) :
        /\ ShortfallMin(r, key, x) <= MicroScaled(r.micro_targets[key])
        /\ PctShort(r, key, x) <= MICRO_PCT

WorstPct(r, x) ==
    MaxOver(ActiveTargets(r),
            [key \in ActiveTargets(r) |-> PctShort(r, key, x)])

MicroPctSum(r, x) ==
    SumOver(ActiveTargets(r),
            [key \in ActiveTargets(r) |-> PctShort(r, key, x)])

\* headroom = ul_scaled - target_scaled
Headroom(r, key) ==
    MicroScaled(r.micro_uls[key]) - MicroScaled(r.micro_targets[key])

\* The keys that get a UL-proximity variable.
ProxKeys(r) ==
    {key \in (DOMAIN r.micro_targets) \cap (DOMAIN r.micro_uls) :
        Headroom(r, key) > 0}

\* The least excess: excess >= total_nutrient - target_scaled, >= 0.
ExcessMin(r, key, x) ==
    Max2(0, NutrientExpr(r, key, x) - MicroScaled(r.micro_targets[key]))

\* The least ul_prox with ul_prox * headroom >= excess * _UL_PROX_SCALE.
ULProx(r, key, x) ==
    CeilDiv(ExcessMin(r, key, x) * UL_PROX_SCALE, Headroom(r, key))

\* excess in [0, headroom] and ul_prox in [0, _UL_PROX_SCALE] exist.
ULProxOK(r, x) ==
    \A key \in ProxKeys(r) :
        /\ ExcessMin(r, key, x) <= Headroom(r, key)
        /\ ULProx(r, key, x) <= UL_PROX_SCALE

WorstULProx(r, x) ==
    MaxOver(ProxKeys(r), [key \in ProxKeys(r) |-> ULProx(r, key, x)])

(***************************************************************************)
(* Macro ratio                                                             *)
(***************************************************************************)
RatioNutrient(name) ==
    CASE name = "carb" -> "carbs"
      [] name = "pro" -> "protein"
      [] name = "fat" -> "fat"

\* The calories per gram: 4, 4, 9.
RatioMult(name) == IF name = "fat" THEN 9 ELSE 4

RatioTargetPct(mr, name) ==
    CASE name = "carb" -> mr.carb_pct
      [] name = "pro" -> mr.protein_pct
      [] name = "fat" -> mr.fat_pct

\* The pinned grams, in tenths of a gram.
RatioPinned(mr, name) ==
    CASE name = "carb" -> mr.pinned_carb_g
      [] name = "pro" -> mr.pinned_protein_g
      [] name = "fat" -> mr.pinned_fat_g

\* pinned_carb_cal = round(macro_ratio.pinned_carb_g * 4 * SCALE), ...
PinnedCal(mr, name) ==
    RoundHalfEven(RatioPinned(mr, name) * RatioMult(name) * SCALE, 10)

\* pinned_cal = pinned_carb_cal + pinned_pro_cal + pinned_fat_cal
PinnedCalSum(mr) ==
    PinnedCal(mr, "carb") + PinnedCal(mr, "pro") + PinnedCal(mr, "fat")

\* day_carb_cal = total_carb * 4 + pinned_carb_cal, ..., at x
DayCal(r, name, x) ==
    TotalExpr(r, MacroField(RatioNutrient(name)), x) * RatioMult(name)
        + PinnedCal(TheVal(r.macro_ratio), name)

DayTotalCal(r, x) ==
    DayCal(r, "carb", x) + DayCal(r, "pro", x) + DayCal(r, "fat", x)

\* max_cal = sum(max_g * coeff * 4 + max_g * coeff * 4 + max_g * coeff * 9)
\*           + pinned
MaxCal(r) ==
    SumOver(Entries(r),
            [i \in Entries(r) |->
                LET ing == r.ingredients[i]
                IN  ing.max_g * ScaledCoeff(ing.food.carbs_g_per_100g) * 4
                    + ing.max_g * ScaledCoeff(ing.food.protein_g_per_100g) * 4
                    + ing.max_g * ScaledCoeff(ing.food.fat_g_per_100g) * 9])
        + PinnedCalSum(TheVal(r.macro_ratio))

\* cal_denom = targets.meal_calories_kcal * SCALE + pinned_cal
CalDenom(r) ==
    r.targets.meal_calories_kcal * SCALE + PinnedCalSum(TheVal(r.macro_ratio))

\* A ratio_excluded that only hard constraints fill.
RatioExcludedHardOnly(r) ==
    {r.macro_constraints[i].nutrient :
        i \in {j \in ActiveConstraints(r) : r.macro_constraints[j].hard}}

\* ratio_excluded: the nutrients of the constraints with mode != "none".

RatioExcluded(r) ==
    {r.macro_constraints[i].nutrient : i \in ActiveConstraints(r)}

\* The macros that get a ratio-deviation variable.
RatioNames(r) ==
    IF r.macro_ratio = None THEN {}
    ELSE {name \in {"carb", "pro", "fat"} :
            RatioNutrient(name) \notin RatioExcluded(r)}

\* diff_expr = cal_expr * 100 - day_total_cal * target_pct, at x
RatioDiff(r, name, x) ==
    DayCal(r, name, x) * 100
        - DayTotalCal(r, x) * RatioTargetPct(TheVal(r.macro_ratio), name)

\* The least pct_dev with pct_dev * cal_denom * 100 >= abs_diff * PCT_SCALE
\* (both sides divided by 100), when one exists.
RatioPct(r, name, x) ==
    IF CalDenom(r) > 0
    THEN CeilDiv(Abs(RatioDiff(r, name, x)) * (PCT_SCALE \div 100), CalDenom(r))
    ELSE 0

\* diff_var in [-bound, bound], abs_diff in [0, bound] and pct_dev in
\* [0, PCT_SCALE] have values at x.
RatioOK(r, x) ==
    \A name \in RatioNames(r) :
        /\ Abs(RatioDiff(r, name, x)) <= MaxCal(r) * 100
        /\ IF CalDenom(r) > 0
           THEN RatioPct(r, name, x) <= PCT_SCALE
           ELSE RatioDiff(r, name, x) = 0

MacroWorst(r, x) ==
    MaxOver(RatioNames(r), [name \in RatioNames(r) |-> RatioPct(r, name, x)])

(***************************************************************************)
(* The feasible region of the gram variables                               *)
(***************************************************************************)
Feasible(r, x) ==
    /\ CalOK(r, x)
    /\ HardOK(r, x)
    /\ LooseOK(r, x)
    /\ ULOK(r, x)
    /\ MicroOK(r, x)
    /\ ULProxOK(r, x)
    /\ RatioOK(r, x)

FeasibleSet(r) == {x \in Assignments(r) : Feasible(r, x)}

(***************************************************************************)
(* Objective composer                                                      *)
(***************************************************************************)
\* if priorities is None: priorities = list(DEFAULT_PRIORITIES)
Priorities(r) ==
    IF r.priorities = None THEN DEFAULT_PRIORITIES ELSE TheVal(r.priorities)

Term(name, max) == [name |-> name, max |-> max]

\* max_total = sum(ing.max_g for ing in ingredients)
MaxTotal(r) ==
    SumOver(Entries(r), [i \in Entries(r) |-> r.ingredients[i].max_g])

\* max_possible = max(ing.max_g for ing in ingredients)
MaxDiversity(r) ==
    MaxOver(Entries(r), [i \in Entries(r) |-> r.ingredients[i].max_g])

\* max_micro_pct_sum = len(pct_short_vars) * _MICRO_PCT
MaxMicroPctSum(r) == Cardinality(ActiveTargets(r)) * MICRO_PCT

\* A MICROS branch without the sum of the percentage shortfalls.
MicroTermsNoSum(r) ==
    (IF ProxKeys(r) # {}
     THEN <<Term("worst_ul_prox", UL_PROX_SCALE)>> ELSE <<>>)
        \o (IF ActiveTargets(r) # {}
            THEN <<Term("worst_pct", MICRO_PCT)>> ELSE <<>>)

\* The terms of the PRIORITY_MICROS branch.
MicroTerms(r) ==
    LET ulp == IF ProxKeys(r) # {}
               THEN <<Term("worst_ul_prox", UL_PROX_SCALE)>> ELSE <<>>
        wp == IF ActiveTargets(r) # {}
              THEN <<Term("worst_pct", MICRO_PCT)>> ELSE <<>>
        sp == IF MaxMicroPctSum(r) > 0
              THEN <<Term("micro_pct_sum", MaxMicroPctSum(r))>> ELSE <<>>
    IN  IF r.micro_strategy = "breadth"
        THEN ulp \o sp \o wp
        ELSE ulp \o wp \o sp

\* A combined term that leaves out the loose deviations.
MacroTermsRatioOnly(r) ==
    IF RatioNames(r) # {}
    THEN <<Term("combined_macro", PCT_SCALE)>> ELSE <<>>

\* combined_macro_var exists when macro_worst or worst_loose does; its bound
\* is PCT_SCALE in each case.

MacroTerms(r) ==
    IF RatioNames(r) # {} \/ LooseIdx(r) # {}
    THEN <<Term("combined_macro", PCT_SCALE)>> ELSE <<>>

DiversityTerms(r) ==
    IF MaxDiversity(r) > 0
    THEN <<Term("max_gram", MaxDiversity(r))>> ELSE <<>>

TotalWeightTerms(r) == <<Term("total_grams", MaxTotal(r))>>

\* One pass of the loop "for p in priorities".
TermsFor(r, p) ==
    CASE p = PRIORITY_MICROS -> MicroTerms(r)
      [] p = PRIORITY_MACRO_RATIO -> MacroTerms(r)
      [] p = PRIORITY_INGREDIENT_DIVERSITY -> DiversityTerms(r)
      [] p = PRIORITY_TOTAL_WEIGHT -> TotalWeightTerms(r)
      [] OTHER -> <<>>

RECURSIVE ComposeTermsReversed(_, _)
\* The terms of the last priority first.
ComposeTermsReversed(r, ps) ==
    IF ps = <<>> THEN <<>>
    ELSE ComposeTermsReversed(r, Tail(ps)) \o TermsFor(r, Head(ps))

RECURSIVE ComposeTerms(_, _)
\* The terms in the order of the priority list.

ComposeTerms(r, ps) ==
    IF ps = <<>> THEN <<>>
    ELSE TermsFor(r, Head(ps)) \o ComposeTerms(r, Tail(ps))

\* terms without the fallback.
TermsNoFallback(r) == ComposeTerms(r, Priorities(r))

\* terms, with the fallback "if not terms".

Terms(r) ==
    LET ts == ComposeTerms(r, Priorities(r))
    IN  IF ts = <<>> THEN TotalWeightTerms(r) ELSE ts

RECURSIVE WeightAt(_, _)
\* weights[-1] = 1; weights[i] = lower_max * weights[i + 1] + 1
WeightAt(ts, i) ==
    IF i >= Len(ts) THEN BigOfNat(1)
    ELSE BigMulAdd(WeightAt(ts, i + 1), ts[i + 1].max, 1)

Weights(ts) == [i \in 1..Len(ts) |-> WeightAt(ts, i)]

RECURSIVE WeightedSum(_, _, _)
\* sum(v[k] * ws[k]) for k from i on.
WeightedSum(v, ws, i) ==
    IF i > Len(ws) THEN <<>>
    ELSE BigAdd(BigMulAdd(ws[i], v[i], 0), WeightedSum(v, ws, i + 1))

\* max_obj = sum(max_val * w for (_, max_val), w in zip(terms, weights))
MaxObj(ts, ws) == WeightedSum([k \in 1..Len(ts) |-> ts[k].max], ws, 1)

\* An assertion that never fails (the check left out).
OverflowNever(mo) == FALSE

\* The overflow assertion fails.

Overflow(mo) == ~BigLess(mo, TWO_POW_62)

\* The value of a term's expression at x, its auxiliary variables at their
\* least values.
TermValue(r, name, x) ==
    CASE name = "worst_ul_prox" -> WorstULProx(r, x)
      [] name = "worst_pct" -> WorstPct(r, x)
      [] name = "micro_pct_sum" -> MicroPctSum(r, x)
      [] name = "combined_macro" -> Max2(MacroWorst(r, x), WorstLoose(r, x))
      [] name = "max_gram" -> MaxOver(Keys(r), x)
      [] name = "total_grams" -> SumOver(Keys(r), x)

\* (e_0, ..., e_{K-1}) at x
TermVector(r, ts, x) == [k \in 1..Len(ts) |-> TermValue(r, ts[k].name, x)]

\* final_obj at x
Objective(r, ts, ws, x) == WeightedSum(TermVector(r, ts, x), ws, 1)

\* The assignments a solver run that ends OPTIMAL may return.
OptimalSet(r, ts, ws) ==
    LET F == FeasibleSet(r)
        obj == [x \in F |-> Objective(r, ts, ws, x)]
    IN  {x \in F : \A y \in F : BigLeq(obj[x], obj[y])}

(***************************************************************************)
(* Solver driver: extraction                                               *)
(***************************************************************************)
\* SUM of grams * per_100g over the entries, in thousandths of a unit
\* (total_cal_real, total_pro_real, ... before any rounding).
RealTotal(r, fld, x) ==
    SumOver(Entries(r),
            [i \in Entries(r) |->
                x[r.ingredients[i].key] * r.ingredients[i].food[fld]])

\* SUM of grams * per_100g / 100 of a micronutrient over the entries, in
\* hundred-thousandths of a unit (micro_totals[key] before rounding).
RealMicro(r, key, x) ==
    SumOver(Entries(r),
            [i \in Entries(r) |->
                x[r.ingredients[i].key] * MicroGet(r.ingredients[i].food, key)])

\* The keys of micro_totals.
MicroKeysOf(r) == UNION {DOMAIN r.ingredients[i].food.micros : i \in Entries(r)}

\* round(v, 1) of a value held in thousandths: tenths.
Round1(milli) == RoundHalfEven(milli, 100)

\* The Solution built from the solver's values; reals rounded to one
\* decimal are held in tenths, micro totals (two decimals) in hundredths.
Extract(r, x, status, obj) ==
    [status |-> status,
     ingredients |->
        [i \in Entries(r) |->
            LET ing == r.ingredients[i]
                grams == x[ing.key]
            IN  [key |-> ing.key,
                 grams |-> grams,
                 calories_kcal |-> Round1(grams * ing.food.calories_kcal_per_100g),
                 protein_g |-> Round1(grams * ing.food.protein_g_per_100g),
                 fat_g |-> Round1(grams * ing.food.fat_g_per_100g),
                 carbs_g |-> Round1(grams * ing.food.carbs_g_per_100g),
                 fiber_g |-> Round1(grams * ing.food.fiber_g_per_100g)]],
     meal_calories_kcal |-> Round1(RealTotal(r, "calories_kcal_per_100g", x)),
     meal_protein_g |-> Round1(RealTotal(r, "protein_g_per_100g", x)),
     meal_fat_g |-> Round1(RealTotal(r, "fat_g_per_100g", x)),
     meal_carbs_g |-> Round1(RealTotal(r, "carbs_g_per_100g", x)),
     meal_fiber_g |-> Round1(RealTotal(r, "fiber_g_per_100g", x)),
     objective_value |-> Some(obj),
     micro_totals |->
        [key \in MicroKeysOf(r) |-> RoundHalfEven(RealMicro(r, key, x), 1000)]]

\* The Solution of the empty-input and no-solution returns.
InfeasibleSolution ==
    [status |-> "infeasible",
     ingredients |-> <<>>,
     meal_calories_kcal |-> 0,
     meal_protein_g |-> 0,
     meal_fat_g |-> 0,
     meal_carbs_g |-> 0,
     meal_fiber_g |-> 0,
     objective_value |-> None,
     micro_totals |-> <<>>]

(***************************************************************************)
(* Requests                                                                *)
(***************************************************************************)
\* Bounds of the request families.
MaxTol == 1

\* The abs_max of the modelled RangeBar.
BarAbsMax == 3

\* How far above its least value the model lets an auxiliary variable be.
MaxSlack == 1

\* How far outside [abs_min, abs_max] the model follows a handle.
MaxOvershoot == 2

\* The most messages waiting when a user event is taken.
MaxPending == 1
MaxConstraintGrams == 2
MaxRepeat == 5

\* Foods.  Macro densities in tenths per 100 g, micro densities in
\* thousandths per 100 g.
FoodP ==
    [calories_kcal_per_100g |-> 4000, protein_g_per_100g |-> 1000,
     fat_g_per_100g |-> 0, carbs_g_per_100g |-> 0, fiber_g_per_100g |-> 0,
     micros |-> ("iron_mg" :> 1000)]

FoodC ==
    [calories_kcal_per_100g |-> 4000, protein_g_per_100g |-> 0,
     fat_g_per_100g |-> 0, carbs_g_per_100g |-> 1000, fiber_g_per_100g |-> 500,
     micros |-> ("zinc_mg" :> 500)]

FoodO ==
    [calories_kcal_per_100g |-> 9000, protein_g_per_100g |-> 0,
     fat_g_per_100g |-> 1000, carbs_g_per_100g |-> 0, fiber_g_per_100g |-> 0,
     micros |-> <<>>]

\* A food whose densities are not whole numbers: 100.4 kcal, 11.6 g protein,
\* 0.014 mg iron and 0.004 mg zinc per 100 g.
FoodR ==
    [calories_kcal_per_100g |-> 1004, protein_g_per_100g |-> 116,
     fat_g_per_100g |-> 4, carbs_g_per_100g |-> 125, fiber_g_per_100g |-> 55,
     micros |-> ("iron_mg" :> 14) @@ ("zinc_mg" :> 4)]

Ing(k, f, b) == [key |-> k, food |-> f, min_g |-> b[1], max_g |-> b[2]]

MC(n, m, g, h) == [nutrient |-> n, mode |-> m, grams |-> g, hard |-> h]

Ratio(c, p, f, pc10, pp10, pf10) ==
    [carb_pct |-> c, protein_pct |-> p, fat_pct |-> f,
     pinned_carb_g |-> pc10, pinned_protein_g |-> pp10, pinned_fat_g |-> pf10]

Req(ings, cal, tol, mt, ul, mcs, mr, prios, strat) ==
    [ingredients |-> ings,
     targets |-> [meal_calories_kcal |-> cal, cal_tolerance |-> tol],
     micro_targets |-> mt,
     micro_uls |-> ul,
     macro_constraints |-> mcs,
     macro_ratio |-> mr,
     priorities |-> prios,
     micro_strategy |-> strat]

GramBoundsSmall == {<<0, 1>>, <<0, 2>>, <<1, 3>>}

Tolerances == 0..MaxTol

RECURSIVE Rep(_, _)
Rep(p, n) == IF n = 0 THEN <<>> ELSE <<p>> \o Rep(p, n - 1)

\* Ingredient lists: empty, one entry, two entries (keys may repeat).
ReqsIngredients ==
    LET E == {Ing(k, f, b) : k \in {1, 2}, f \in {FoodP, FoodO},
                             b \in GramBoundsSmall}
        L == {<<>>} \cup {<<a>> : a \in E} \cup {<<a, b>> : a \in E, b \in E}
        P == {Some(<<>>), Some(<<PRIORITY_TOTAL_WEIGHT>>),
              Some(<<PRIORITY_INGREDIENT_DIVERSITY, PRIORITY_TOTAL_WEIGHT>>)}
    IN  {Req(l, cal, tol, <<>>, <<>>, <<>>, None, p, "depth") :
            l \in L, cal \in {9, 17}, tol \in Tolerances, p \in P}

\* Priority lists and micro targets.
ReqsObjective ==
    LET L == {<<Ing(1, FoodP, b1), Ing(2, f, b2)>> :
                b1 \in GramBoundsSmall, b2 \in {<<0, 1>>, <<0, 2>>},
                f \in {FoodO, FoodC}}
        MT == {<<>>, ("iron_mg" :> 2000),
               ("iron_mg" :> 2000) @@ ("zinc_mg" :> 1000)}
        UL == {<<>>, ("iron_mg" :> 3000)}
        P == {None,
              Some(<<PRIORITY_MICROS, PRIORITY_TOTAL_WEIGHT>>),
              Some(<<PRIORITY_TOTAL_WEIGHT, PRIORITY_MICROS>>),
              Some(<<PRIORITY_MICROS>>),
              Some(<<PRIORITY_INGREDIENT_DIVERSITY, PRIORITY_MICROS>>),
              Some(<<PRIORITY_TOTAL_WEIGHT, PRIORITY_INGREDIENT_DIVERSITY,
                     PRIORITY_MICROS>>),
              Some(<<PRIORITY_MICROS, PRIORITY_MICROS, PRIORITY_TOTAL_WEIGHT>>),
              Some(<<"bogus">>)}
    IN  {Req(l, cal, tol, mt, ul, <<>>, None, p, st) :
            l \in L, cal \in {9, 17}, tol \in Tolerances, mt \in MT,
            ul \in UL, p \in P, st \in {"depth", "breadth"}}

\* Macro constraints and macro ratio.
ReqsMacro ==
    LET LC == {<<<<Ing(1, FoodP, <<0, 3>>), Ing(2, FoodC, <<0, 3>>)>>, 8>>,
               <<<<Ing(1, FoodP, <<0, 3>>), Ing(2, FoodO, <<0, 2>>)>>, 17>>}
        M == {MC(n, m, g, h) :
                n \in {"carbs", "protein", "fat", "fiber"},
                m \in {"gte", "lte", "eq", "none"},
                g \in 0..MaxConstraintGrams, h \in BOOLEAN}
        M2 == {<<a, b>> : a \in {c \in M : c.nutrient = "protein" /\ c.grams = 1
                                                /\ c.hard},
                          b \in {c \in M : c.nutrient = "fat" /\ c.grams = 1}}
        MCS == {<<>>} \cup {<<a>> : a \in M} \cup M2
        MR == {None, Some(Ratio(50, 25, 25, 0, 0, 0)),
               Some(Ratio(30, 20, 50, 0, 0, 5))}
        P == {None, Some(<<PRIORITY_MACRO_RATIO, PRIORITY_TOTAL_WEIGHT>>)}
    IN  {Req(lc[1], lc[2], tol, <<>>, <<>>, mcs, mr, p, "depth") :
            lc \in LC, tol \in Tolerances, mcs \in MCS, mr \in MR, p \in P}

\* ULs and targets, small and not positive ones included.
ReqsUL ==
    LET L == {<<Ing(1, FoodP, <<0, 2>>)>>,
              <<Ing(1, FoodP, <<0, 2>>), Ing(2, FoodO, <<0, 1>>)>>}
        UL == {<<>>} \cup {("iron_mg" :> v) : v \in {0 - 100, 4, 5, 6, 15, 25, 100, 3000}}
                     \cup {("selenium_mcg" :> 4), ("selenium_mcg" :> 100)}
        MT == {<<>>, ("iron_mg" :> 2000), ("iron_mg" :> 0 - 100),
               ("iron_mg" :> 0), ("selenium_mcg" :> 1000)}
        P == {None, Some(<<PRIORITY_MICROS, PRIORITY_TOTAL_WEIGHT>>)}
    IN  {Req(l, cal, tol, mt, ul, <<>>, None, p, "depth") :
            l \in L, cal \in {8, 9}, tol \in Tolerances, mt \in MT, ul \in UL,
            p \in P}

\* Large servings of a food whose densities are not whole numbers.
ReqsRounding ==
    LET L == {<<Ing(1, FoodR, b)>> : b \in {<<999, 1000>>, <<2999, 3000>>}}
        MCS == {<<>>, <<MC("protein", "gte", 120, TRUE)>>,
                <<MC("protein", "gte", 360, TRUE)>>,
                <<MC("protein", "lte", 120, TRUE)>>,
                <<MC("fat", "eq", 0, TRUE)>>}
        UL == {<<>>, ("iron_mg" :> 30000), ("zinc_mg" :> 100)}
        P == {None, Some(<<PRIORITY_TOTAL_WEIGHT>>)}
    IN  {Req(l, cal, tol, <<>>, ul, mcs, None, p, "depth") :
            l \in L, cal \in {1000, 3000}, tol \in Tolerances, mcs \in MCS,
            ul \in UL, p \in P}

\* Long weight chains: a large max_g with many tiers.
ReqsOverflow ==
    LET L == {<<Ing(1, FoodP, <<29999, 30000>>)>>}
        MCS == {<<>>, <<MC("fiber", "gte", 1, FALSE)>>}
        MT == {<<>>, ("iron_mg" :> 2000)}
        UL == {<<>>, ("iron_mg" :> 40000000)}
        P == {None} \cup {Some(Rep(PRIORITY_TOTAL_WEIGHT, n)) : n \in 1..MaxRepeat}
    IN  {Req(l, 120000, tol, mt, ul, mcs, None, p, "depth") :
            l \in L, tol \in Tolerances, mt \in MT, ul \in UL, mcs \in MCS,
            p \in P}

\* Soft constraints on an ingredient list that repeats a key.
ReqsRepeatedKeySoft ==
    LET L == {<<Ing(1, FoodP, <<0, 1>>), Ing(1, FoodP, <<0, 2>>)>>}
        MCS == {<<>>} \cup {<<MC("protein", m, g, FALSE)>> :
                                m \in {"gte", "lte", "eq"},
                                g \in 0..MaxConstraintGrams}
        P == {None, Some(<<PRIORITY_MACRO_RATIO>>)}
    IN  {Req(l, 16, tol, <<>>, <<>>, mcs, None, p, "depth") :
            l \in L, tol \in Tolerances, mcs \in MCS, p \in P}

\* Soft constraints under priority lists with and without the macro tier.
ReqsSoftPriorities ==
    LET L == {<<Ing(1, FoodP, <<0, 3>>), Ing(2, FoodC, <<0, 3>>)>>}
        MCS == {<<MC("protein", m, g, FALSE)>> :
                    m \in {"gte", "lte", "eq"}, g \in 0..MaxConstraintGrams}
        P == {Some(<<PRIORITY_TOTAL_WEIGHT>>),
              Some(<<PRIORITY_INGREDIENT_DIVERSITY>>),
              Some(<<PRIORITY_TOTAL_WEIGHT, PRIORITY_MACRO_RATIO>>),
              Some(<<PRIORITY_MACRO_RATIO, PRIORITY_INGREDIENT_DIVERSITY>>)}
    IN  {Req(l, 8, tol, <<>>, <<>>, mcs, None, p, "depth") :
            l \in L, tol \in Tolerances, mcs \in MCS, p \in P}

\* No ingredients, the other arguments varied.
ReqsEmpty ==
    LET MT == {<<>>, ("iron_mg" :> 2000)}
        UL == {<<>>, ("iron_mg" :> 3000)}
        MCS == {<<>>, <<MC("protein", "gte", 1, TRUE)>>,
                <<MC("fat", "lte", 1, FALSE)>>}
        MR == {None, Some(Ratio(50, 25, 25, 0, 0, 0))}
        P == {None, Some(<<>>), Some(<<"bogus">>),
              Some(Rep(PRIORITY_TOTAL_WEIGHT, MaxRepeat))}
    IN  {Req(<<>>, cal, tol, mt, ul, mcs, mr, p, st) :
            cal \in {0, 9}, tol \in Tolerances, mt \in MT, ul \in UL,
            mcs \in MCS, mr \in MR, p \in P, st \in {"depth", "breadth"}}

\* A negative calorie tolerance: cal_dev gets lower bound > upper bound.
ReqsNegativeTolerance ==
    LET L == {<<Ing(1, FoodP, b)>> : b \in GramBoundsSmall}
        P == {None, Some(<<PRIORITY_TOTAL_WEIGHT>>)}
    IN  {Req(l, cal, 0 - 1, <<>>, <<>>, <<>>, None, p, "depth") :
            l \in L, cal \in {0, 8}, p \in P}

\* Priority lists with unknown entries and with tiers that have no term.
ReqsPriorityLists ==
    LET LC == {<<<<Ing(1, FoodP, <<0, 2>>), Ing(2, FoodO, <<0, 1>>)>>, 9>>,
               <<<<Ing(1, FoodP, <<0, 3>>), Ing(2, FoodC, <<0, 3>>)>>, 8>>,
               <<<<Ing(1, FoodP, <<0, 0>>)>>, 0>>}
        MT == {<<>>, ("iron_mg" :> 2000)}
        P == {Some(<<>>), Some(<<"bogus">>), Some(<<"bogus", "other">>),
              Some(<<"bogus", PRIORITY_MICROS>>),
              Some(<<PRIORITY_MICROS, "bogus", PRIORITY_TOTAL_WEIGHT>>),
              Some(<<PRIORITY_MICROS>>),
              Some(<<PRIORITY_MACRO_RATIO>>),
              Some(<<PRIORITY_INGREDIENT_DIVERSITY>>),
              Some(<<PRIORITY_INGREDIENT_DIVERSITY, "bogus">>)}
    IN  {Req(lc[1], lc[2], tol, mt, <<>>, <<>>, None, p, "depth") :
            lc \in LC, tol \in Tolerances, mt \in MT, p \in P}

\* One ingredient with min_g = max_g = 0.
ReqsZeroIngredient ==
    LET L == {<<Ing(1, f, <<0, 0>>)>> : f \in {FoodP, FoodO, FoodR}}
        MCS == {<<>>, <<MC("protein", "gte", 1, TRUE)>>,
                <<MC("protein", "gte", 1, FALSE)>>}
        P == {None, Some(<<PRIORITY_TOTAL_WEIGHT>>)}
    IN  {Req(l, cal, tol, <<>>, <<>>, mcs, None, p, "depth") :
            l \in L, cal \in 0..(MaxTol + 1), tol \in Tolerances,
            mcs \in MCS, p \in P}

\* A food with 1 mg iron per 100 g at 300 kcal, and one with 4 mg iron per
\* 100 g at 800 kcal.
FoodL ==
    [calories_kcal_per_100g |-> 3000, protein_g_per_100g |-> 750,
     fat_g_per_100g |-> 0, carbs_g_per_100g |-> 0, fiber_g_per_100g |-> 0,
     micros |-> ("iron_mg" :> 1000)]

FoodI ==
    [calories_kcal_per_100g |-> 8000, protein_g_per_100g |-> 0,
     fat_g_per_100g |-> 890, carbs_g_per_100g |-> 0, fiber_g_per_100g |-> 0,
     micros |-> ("iron_mg" :> 4000)]

\* Two plans in the band: more grams with better coverage, or fewer grams
\* with a worse one; or fewer grams above the target and more grams below.
ReqsTradeoff ==
    LET C == {<<<<Ing(1, FoodL, <<0, 3>>), Ing(2, FoodO, <<0, 1>>)>>, 9,
                <<>>>>,
              <<<<Ing(1, FoodI, <<0, 1>>), Ing(2, FoodP, <<0, 2>>)>>, 8,
                <<>>>>,
              <<<<Ing(1, FoodI, <<0, 1>>), Ing(2, FoodP, <<0, 2>>)>>, 8,
                ("iron_mg" :> 5000)>>}
        P == {Some(<<PRIORITY_TOTAL_WEIGHT, PRIORITY_MICROS>>),
              Some(<<PRIORITY_MICROS, PRIORITY_TOTAL_WEIGHT>>),
              Some(<<PRIORITY_MICROS, PRIORITY_MACRO_RATIO,
                     PRIORITY_TOTAL_WEIGHT>>),
              None}
    IN  {Req(c[1], c[2], tol, ("iron_mg" :> 3000), c[3], <<>>, None, p, st) :
            c \in C, tol \in Tolerances, p \in P,
            st \in {"depth", "breadth"}}

\* A food with 1 mg iron and 10 g protein per 100 g at 100 kcal.
FoodW ==
    [calories_kcal_per_100g |-> 1000, protein_g_per_100g |-> 100,
     fat_g_per_100g |-> 0, carbs_g_per_100g |-> 0, fiber_g_per_100g |-> 0,
     micros |-> ("iron_mg" :> 1000)]

\* One gram that covers one percent of one target of two.
ReqsOnePercent ==
    LET MCS == {<<>>, <<MC("protein", "lte", 0, FALSE)>>}
        P == {Some(<<PRIORITY_MICROS, PRIORITY_MACRO_RATIO,
                     PRIORITY_INGREDIENT_DIVERSITY, PRIORITY_TOTAL_WEIGHT>>),
              Some(<<PRIORITY_MICROS, PRIORITY_MACRO_RATIO,
                     PRIORITY_TOTAL_WEIGHT>>)}
    IN  {Req(<<Ing(1, FoodW, <<0, 1>>)>>, cal, 1,
             ("iron_mg" :> 100000) @@ ("zinc_mg" :> 1000), <<>>, mcs, None,
             p, st) :
            cal \in 0..1, mcs \in MCS, p \in P, st \in {"depth", "breadth"}}

\* A food listed at 100 kcal per 100 g whose 100 g of carbohydrate count
\* 400 kcal at 4 kcal/g.
FoodF ==
    [calories_kcal_per_100g |-> 1000, protein_g_per_100g |-> 0,
     fat_g_per_100g |-> 0, carbs_g_per_100g |-> 1000, fiber_g_per_100g |-> 800,
     micros |-> <<>>]

\* Macro ratios on foods whose macro calories differ from, or equal, the
\* listed calories, with calorie targets down to 0.
ReqsRatio ==
    LET L == {<<Ing(1, f, <<0, 2>>)>> : f \in {FoodF, FoodP, FoodO}}
        MR == {Some(Ratio(50, 25, 25, 0, 0, 0)),
               Some(Ratio(30, 20, 50, 0, 0, 5)),
               Some(Ratio(0, 100, 0, 0, 0, 0))}
        P == {None, Some(<<PRIORITY_MACRO_RATIO, PRIORITY_TOTAL_WEIGHT>>)}
    IN  {Req(l, cal, tol, <<>>, <<>>, <<>>, mr, p, "depth") :
            l \in L, cal \in {0, 1, 2, 8}, tol \in Tolerances, mr \in MR,
            p \in P}

\* Three and four tiers in several orders, with and without gram ranges
\* that sum to 0.
ReqsTermOrder ==
    LET LC == {<<<<Ing(1, FoodP, <<0, 0>>)>>, 0>>,
               <<<<Ing(1, FoodP, <<0, 2>>), Ing(2, FoodC, <<0, 2>>)>>, 8>>}
        UL == {<<>>, ("iron_mg" :> 3000)}
        MCS == {<<>>, <<MC("protein", "gte", 1, FALSE)>>}
        P == {None,
              Some(<<PRIORITY_MACRO_RATIO, PRIORITY_TOTAL_WEIGHT,
                     PRIORITY_MICROS>>),
              Some(<<PRIORITY_MICROS, PRIORITY_TOTAL_WEIGHT,
                     PRIORITY_MACRO_RATIO>>),
              Some(<<PRIORITY_TOTAL_WEIGHT, PRIORITY_MICROS,
                     PRIORITY_INGREDIENT_DIVERSITY>>)}
    IN  {Req(lc[1], lc[2], tol, ("iron_mg" :> 2000), ul, mcs, None, p, st) :
            lc \in LC, tol \in Tolerances, ul \in UL, mcs \in MCS, p \in P,
            st \in {"depth", "breadth"}}

Requests ==
    ReqsIngredients \cup ReqsObjective \cup ReqsMacro \cup ReqsUL
        \cup ReqsRounding \cup ReqsOverflow \cup ReqsRepeatedKeySoft
        \cup ReqsSoftPriorities \cup ReqsEmpty \cup ReqsNegativeTolerance
        \cup ReqsPriorityLists \cup ReqsZeroIngredient \cup ReqsTermOrder
        \cup ReqsTradeoff \cup ReqsOnePercent \cup ReqsRatio

(***************************************************************************)
(* The steps of one call of solve                                          *)
(***************************************************************************)
\* No HTTP exchange: the value of http while solve is called directly.
IdleHttp ==
    [stage |-> "idle", method |-> "", path |-> "", body |-> None,
     status_code |-> 0, json |-> None]

\* RangeBar(abs_min=0, abs_max, range_min, range_max, step) inside an
\* IngredientRow whose two inputs show range_min and range_max; an input
\* value is Some(n) for the text of the integer n and None for a text that
\* int() rejects.
NewBar(abs_max, range_min, range_max) ==
    [abs_min |-> 0, abs_max |-> abs_max,
     range_min |-> range_min, range_max |-> range_max,
     step |-> Max2(1, abs_max \div 50),
     dragging |-> "", focused_handle |-> "min",
     min_input |-> Some(range_min), max_input |-> Some(range_max),
     queue |-> <<>>]

\* The bar while no widget is on screen.
DefaultBar == NewBar(BarAbsMax, 0, BarAbsMax)

Init ==
    /\ req \in Requests
    /\ pc = "start"
    /\ gram_vars = <<>>
    /\ terms = <<>>
    /\ weights = <<>>
    /\ max_obj = <<>>
    /\ cp_status = "NONE"
    /\ value = None
    /\ solution = None
    /\ solver_calls = 0
    /\ aux = None
    /\ http = IdleHttp
    /\ bar = DefaultBar

\* An empty-input return that reports status optimal.
ReturnEmptyAsOptimal ==
    /\ pc = "start"
    /\ req.ingredients = <<>>
    /\ solution' = Some([InfeasibleSolution EXCEPT !.status = "optimal"])
    /\ pc' = "done"
    /\ UNCHANGED <<aux, http, bar>>
    /\ UNCHANGED <<req, gram_vars, terms, weights, max_obj, cp_status, value,
                   solver_calls>>

\* if not ingredients: return Solution(status="infeasible", ...)

ReturnEmpty ==
    /\ pc = "start"
    /\ req.ingredients = <<>>
    /\ solution' = Some(InfeasibleSolution)
    /\ pc' = "done"
    /\ UNCHANGED <<aux, http, bar>>
    /\ UNCHANGED <<req, gram_vars, terms, weights, max_obj, cp_status, value,
                   solver_calls>>

\* The model builder: decision variables, constraints, auxiliary variables.
BuildModel ==
    /\ pc = "start"
    /\ req.ingredients # <<>>
    /\ gram_vars' = GramVars(req)
    /\ pc' = "built"
    /\ UNCHANGED <<aux, http, bar>>
    /\ UNCHANGED <<req, terms, weights, max_obj, cp_status, value, solution,
                   solver_calls>>

\* The objective composer: terms, weights, max_obj.
ComposeObjective ==
    /\ pc = "built"
    /\ terms' = Terms(req)
    /\ weights' = Weights(Terms(req))
    /\ max_obj' = MaxObj(Terms(req), Weights(Terms(req)))
    /\ pc' = "composed"
    /\ UNCHANGED <<aux, http, bar>>
    /\ UNCHANGED <<req, gram_vars, cp_status, value, solution, solver_calls>>

\* assert max_obj < 2**62 fails: AssertionError leaves solve.
RejectOverflow ==
    /\ pc = "composed"
    /\ Overflow(max_obj)
    /\ pc' = "raised"
    /\ UNCHANGED <<aux, http, bar>>
    /\ UNCHANGED <<req, gram_vars, terms, weights, max_obj, cp_status, value,
                   solution, solver_calls>>

\* assert max_obj < 2**62 passes; model.minimize(final_obj).
PassOverflowCheck ==
    /\ pc = "composed"
    /\ ~Overflow(max_obj)
    /\ pc' = "checked"
    /\ UNCHANGED <<aux, http, bar>>
    /\ UNCHANGED <<req, gram_vars, terms, weights, max_obj, cp_status, value,
                   solution, solver_calls>>

\* solver.solve(model) ends OPTIMAL with a minimizer of final_obj.
SolveOptimal ==
    /\ pc = "checked"
    /\ \E x \in OptimalSet(req, terms, weights) :
          /\ value' = Some(x)
          /\ cp_status' = "OPTIMAL"
    /\ solver_calls' = solver_calls + 1
    /\ pc' = "solved"
    /\ UNCHANGED <<aux, http, bar>>
    /\ UNCHANGED <<req, gram_vars, terms, weights, max_obj, solution>>

\* solver.solve(model) reaches the time limit with an incumbent.
SolveFeasible ==
    /\ pc = "checked"
    /\ \E x \in FeasibleSet(req) :
          /\ value' = Some(x)
          /\ cp_status' = "FEASIBLE"
    /\ solver_calls' = solver_calls + 1
    /\ pc' = "solved"
    /\ UNCHANGED <<aux, http, bar>>
    /\ UNCHANGED <<req, gram_vars, terms, weights, max_obj, solution>>

\* solver.solve(model) proves that the model has no solution.
SolveInfeasible ==
    /\ pc = "checked"
    /\ FeasibleSet(req) = {}
    /\ cp_status' = "INFEASIBLE"
    /\ solver_calls' = solver_calls + 1
    /\ pc' = "solved"
    /\ UNCHANGED <<aux, http, bar>>
    /\ UNCHANGED <<req, gram_vars, terms, weights, max_obj, value, solution>>

\* solver.solve(model) reaches the time limit with no incumbent.
SolveUnknown ==
    /\ pc = "checked"
    /\ cp_status' = "UNKNOWN"
    /\ solver_calls' = solver_calls + 1
    /\ pc' = "solved"
    /\ UNCHANGED <<aux, http, bar>>
    /\ UNCHANGED <<req, gram_vars, terms, weights, max_obj, value, solution>>

\* Some variable of the model was created with lower bound > upper bound.
EmptyDomain(r) ==
    \/ CalDevDomain(r) = {}
    \/ \E k \in Keys(r) : GramVars(r)[k].lb > GramVars(r)[k].ub

\* solver.solve(model) rejects the model: a variable has no domain.  (The
\* solver may also report such a model as infeasible.)
SolveInvalid ==
    /\ pc = "checked"
    /\ EmptyDomain(req)
    /\ cp_status' = "MODEL_INVALID"
    /\ solver_calls' = solver_calls + 1
    /\ pc' = "solved"
    /\ UNCHANGED <<aux, http, bar>>
    /\ UNCHANGED <<req, gram_vars, terms, weights, max_obj, value, solution>>

\* A no-plan return that tells a timeout from an infeasible model.
ReturnInfeasibleByCause ==
    /\ pc = "solved"
    /\ cp_status \notin {"OPTIMAL", "FEASIBLE"}
    /\ solution' =
          Some([InfeasibleSolution EXCEPT
                  !.status = IF cp_status = "UNKNOWN" THEN "timeout"
                             ELSE "infeasible"])
    /\ pc' = "done"
    /\ UNCHANGED <<aux, http, bar>>
    /\ UNCHANGED <<req, gram_vars, terms, weights, max_obj, cp_status, value,
                   solver_calls>>

\* if status not in (OPTIMAL, FEASIBLE): return Solution(status="infeasible")

ReturnInfeasible ==
    /\ pc = "solved"
    /\ cp_status \notin {"OPTIMAL", "FEASIBLE"}
    /\ solution' = Some(InfeasibleSolution)
    /\ pc' = "done"
    /\ UNCHANGED <<aux, http, bar>>
    /\ UNCHANGED <<req, gram_vars, terms, weights, max_obj, cp_status, value,
                   solver_calls>>

\* Extract the solution and return it.
ExtractSolution ==
    /\ pc = "solved"
    /\ cp_status \in {"OPTIMAL", "FEASIBLE"}
    /\ solution' =
          Some(Extract(req, TheVal(value),
                       IF cp_status = "OPTIMAL" THEN "optimal" ELSE "feasible",
                       Objective(req, terms, weights, TheVal(value))))
    /\ pc' = "done"
    /\ UNCHANGED <<aux, http, bar>>
    /\ UNCHANGED <<req, gram_vars, terms, weights, max_obj, cp_status, value,
                   solver_calls>>

Next ==
    \/ ReturnEmpty
    \/ BuildModel
    \/ ComposeObjective
    \/ RejectOverflow
    \/ PassOverflowCheck
    \/ SolveOptimal
    \/ SolveFeasible
    \/ SolveInfeasible
    \/ SolveUnknown
    \/ SolveInvalid
    \/ ReturnInfeasible
    \/ ExtractSolution

Spec == Init /\ [][Next]_vars

(***************************************************************************)
(* The solver call with the shortfall variables of solve made explicit     *)
(***************************************************************************)
\* The values the model allows for {key}_pct_short and worst_pct at x: a
\* pct_short in [0, _MICRO_PCT] with pct_short * target_scaled >=
\* shortfall * _MICRO_PCT for some shortfall >= target_scaled - total in
\* [0, target_scaled], and worst_pct >= every pct_short; the model follows
\* them up to MaxSlack above their least values.
AuxSet(r, x) ==
    LET T == ActiveTargets(r)
        cap(v) == IF v <= MICRO_PCT THEN v ELSE MICRO_PCT
        pcts(d) == [k \in T |-> cap(PctShort(r, k, x) + d[k])]
    IN  IF T = {} THEN {[pct_short |-> <<>>, worst_pct |-> None]}
        ELSE {[pct_short |-> pcts(s[1]),
               worst_pct |-> Some(cap(MaxOver(T, pcts(s[1])) + s[2]))] :
                s \in [T -> 0..MaxSlack] \X (0..MaxSlack)}

\* The value of the term named name at the gram assignment x and the
\* auxiliary values a.
AuxTermValue(r, name, x, a) ==
    CASE name = "worst_pct" -> TheVal(a.worst_pct)
      [] name = "micro_pct_sum" ->
            SumOver(DOMAIN a.pct_short, a.pct_short)
      [] OTHER -> TermValue(r, name, x)

\* final_obj at (x, a).
AuxObjective(r, ts, ws, x, a) ==
    WeightedSum([k \in 1..Len(ts) |-> AuxTermValue(r, ts[k].name, x, a)],
                ws, 1)

\* The solutions of the model: gram values with auxiliary values.
AuxSolutions(r) ==
    UNION {{<<x, a>> : a \in AuxSet(r, x)} : x \in FeasibleSet(r)}

\* The solutions a solver run that ends OPTIMAL may return.
AuxOptimalSet(r, ts, ws) ==
    LET S == AuxSolutions(r)
        obj == [s \in S |-> AuxObjective(r, ts, ws, s[1], s[2])]
    IN  {s \in S : \A t \in S : BigLeq(obj[s], obj[t])}

\* solver.solve(model) proves optimality.
SolveOptimalAux ==
    /\ pc = "checked"
    /\ \E s \in AuxOptimalSet(req, terms, weights) :
          /\ value' = Some(s[1])
          /\ aux' = Some(s[2])
    /\ cp_status' = "OPTIMAL"
    /\ solver_calls' = solver_calls + 1
    /\ pc' = "solved"
    /\ UNCHANGED <<req, gram_vars, terms, weights, max_obj, solution, http,
                   bar>>

\* solver.solve(model) reaches the time limit with an incumbent.
SolveFeasibleAux ==
    /\ pc = "checked"
    /\ \E s \in AuxSolutions(req) :
          /\ value' = Some(s[1])
          /\ aux' = Some(s[2])
    /\ cp_status' = "FEASIBLE"
    /\ solver_calls' = solver_calls + 1
    /\ pc' = "solved"
    /\ UNCHANGED <<req, gram_vars, terms, weights, max_obj, solution, http,
                   bar>>

\* Two targeted nutrients that two foods cover to different percentages.
ReqsShortfalls ==
    LET P == {None, Some(<<PRIORITY_MICROS, PRIORITY_TOTAL_WEIGHT>>),
              Some(<<PRIORITY_TOTAL_WEIGHT, PRIORITY_MICROS>>),
              Some(<<PRIORITY_TOTAL_WEIGHT>>)}
    IN  {Req(<<Ing(1, FoodP, <<0, 2>>), Ing(2, FoodC, <<0, 2>>)>>, 8, tol,
             ("iron_mg" :> iron) @@ ("zinc_mg" :> 3000), <<>>, <<>>, None,
             p, st) :
            tol \in Tolerances, iron \in {2000, 3000}, p \in P,
            st \in {"depth", "breadth"}}

\* Requests with micro targets, with and without MICROS in the list.
RequestsAux ==
    ReqsTradeoff \cup ReqsOnePercent \cup ReqsTermOrder \cup ReqsShortfalls

InitAux ==
    /\ req \in RequestsAux
    /\ pc = "start"
    /\ gram_vars = <<>>
    /\ terms = <<>>
    /\ weights = <<>>
    /\ max_obj = <<>>
    /\ cp_status = "NONE"
    /\ value = None
    /\ solution = None
    /\ solver_calls = 0
    /\ aux = None
    /\ http = IdleHttp
    /\ bar = DefaultBar

NextAux ==
    \/ BuildModel
    \/ ComposeObjective
    \/ PassOverflowCheck
    \/ SolveOptimalAux
    \/ SolveFeasibleAux

SpecAux == InitAux /\ [][NextAux]_vars

(***************************************************************************)
(* daily_chow.api: the HTTP application                                    *)
(***************************************************************************)
\* The routes of app: @app.get("/foods") and @app.post("/solve").
Routes == {<<"GET", "/foods">>, <<"POST", "/solve">>}

RoutePaths == {rt[2] : rt \in Routes}

\* load_foods(): the food database, by key.
ApiFoods == (1 :> FoodP) @@ (2 :> FoodO)

\* The keys of MICRO_INFO the requests name.
MICRO_INFO == {"iron_mg", "zinc_mg"}

\* DRI_TARGETS[(Sex.MALE, AgeGroup.AGE_19_30)]: iron 8 mg, zinc 11 mg, in
\* hundred-thousandths.
DriTargets == ("iron_mg" :> 800000) @@ ("zinc_mg" :> 1100000)

\* DRI_UL[(sex, age_group)]: iron 45 mg, zinc 40 mg, in hundred-thousandths.
DriUL == ("iron_mg" :> 4500000) @@ ("zinc_mg" :> 4000000)

\* req.pinned_micros.get(k, 0.0)
PinnedVal(b, k) ==
    IF k \in DOMAIN b.pinned_micros THEN b.pinned_micros[k] ELSE 0

\* The loop over req.ingredients: unknown keys skipped, the bounds sorted.
ApiIngredientInputs(b) ==
    LET known == SelectSeq(b.ingredients, LAMBDA i : i.key \in DOMAIN ApiFoods)
    IN  [n \in 1..Len(known) |->
            Ing(known[n].key, ApiFoods[known[n].key],
                <<IF known[n].min_g <= known[n].max_g
                  THEN known[n].min_g ELSE known[n].max_g,
                  Max2(known[n].min_g, known[n].max_g)>>)]

\* micro_targets: remaining = max(0, dri_val - pinned_val), kept when > 0
\* and k in dri (None and the empty dict are both falsy in solve).
ApiMicroTargets(b) ==
    LET named == {b.optimize_nutrients[n] : n \in DOMAIN b.optimize_nutrients}
        keys == {k \in named \cap DOMAIN DriTargets :
                    Max2(0, DriTargets[k] - PinnedVal(b, k)) > 0}
    IN  [k \in keys |-> DriTargets[k] - PinnedVal(b, k)]

\* micro_uls: remaining_ul = ul_val - pinned_val, kept when > 0.
ApiMicroULs(b) ==
    LET keys == {k \in DOMAIN DriUL : DriUL[k] - PinnedVal(b, k) > 0}
    IN  [k \in keys |-> DriUL[k] - PinnedVal(b, k)]

\* The arguments of the call of solve; of the targets, solve reads
\* meal_calories_kcal and cal_tolerance.
ApiSolveArgs(b) ==
    Req(ApiIngredientInputs(b), b.targets.meal_calories_kcal,
        b.targets.cal_tolerance, ApiMicroTargets(b), ApiMicroULs(b), <<>>,
        None, Some(b.priorities), "depth")

\* solution.micro_totals.get(key, 0.0), in hundredths.
MealTotal(sol, key) ==
    IF key \in DOMAIN sol.micro_totals THEN sol.micro_totals[key] ELSE 0

\* The SolveResponse: amounts rounded to two decimals are in hundredths.
ApiSolveResponse(b, sol) ==
    [status |-> sol.status,
     ingredients |-> sol.ingredients,
     meal_calories_kcal |-> sol.meal_calories_kcal,
     micros |->
        [key \in MICRO_INFO |->
            [total |-> MealTotal(sol, key),
             pinned |-> RoundHalfEven(PinnedVal(b, key), 1000),
             remaining |->
                RoundHalfEven(
                    Max2(0, (IF key \in DOMAIN DriTargets
                             THEN DriTargets[key] ELSE 0) - PinnedVal(b, key)),
                    1000),
             optimized |->
                \E n \in DOMAIN b.optimize_nutrients :
                    b.optimize_nutrients[n] = key,
             ul |-> IF key \in DOMAIN DriUL THEN Some(DriUL[key]) ELSE None]]]

\* The SolveRequest bodies of the modelled clients.
ApiBodies ==
    LET I(k, lo, hi) == [key |-> k, min_g |-> lo, max_g |-> hi]
        L == {<<>>, <<I(1, 0, 2)>>, <<I(1, 2, 0)>>, <<I(99, 0, 2)>>,
              <<I(1, 0, 2), I(2, 0, 1)>>}
        OPT == {<<>>, <<"iron_mg">>, <<"iron_mg", "bogus">>}
        PIN == {<<>>, ("iron_mg" :> 0), ("iron_mg" :> 1000000),
                ("iron_mg" :> 4500000), ("iron_mg" :> 5000000)}
        P == {DEFAULT_PRIORITIES, <<PRIORITY_TOTAL_WEIGHT>>}
    IN  {[ingredients |-> l,
          targets |-> [meal_calories_kcal |-> cal, cal_tolerance |-> tol],
          priorities |-> p, sex |-> "male", age_group |-> "19-30",
          optimize_nutrients |-> opt, pinned_micros |-> pin] :
            l \in L, cal \in {8, 9}, tol \in Tolerances, p \in P,
            opt \in OPT, pin \in PIN}

HttpMethods == {"GET", "POST"}

HttpPaths == {"/health", "/foods", "/solve", "/"}

\* A request for a path no route has: the application answers 404.
NotFound ==
    /\ http.stage = "idle"
    /\ \E m \in HttpMethods, p \in HttpPaths \ RoutePaths :
          http' = [http EXCEPT !.stage = "responded", !.method = m,
                               !.path = p, !.status_code = 404,
                               !.json = Some([detail |-> "Not Found"])]
    /\ UNCHANGED <<req, pc, gram_vars, terms, weights, max_obj, cp_status,
                   value, solution, solver_calls, aux, bar>>

\* A request for a routed path with a method the route does not take: 405.
MethodNotAllowed ==
    /\ http.stage = "idle"
    /\ \E m \in HttpMethods, p \in RoutePaths :
          /\ <<m, p>> \notin Routes
          /\ http' = [http EXCEPT !.stage = "responded", !.method = m,
                          !.path = p, !.status_code = 405,
                          !.json = Some([detail |-> "Method Not Allowed"])]
    /\ UNCHANGED <<req, pc, gram_vars, terms, weights, max_obj, cp_status,
                   value, solution, solver_calls, aux, bar>>

\* get_foods
GetFoods ==
    /\ http.stage = "idle"
    /\ http' = [http EXCEPT !.stage = "responded", !.method = "GET",
                            !.path = "/foods", !.status_code = 200,
                            !.json = Some([foods |-> DOMAIN ApiFoods])]
    /\ UNCHANGED <<req, pc, gram_vars, terms, weights, max_obj, cp_status,
                   value, solution, solver_calls, aux, bar>>

\* post_solve up to the call of solve.
PostSolveCall ==
    /\ http.stage = "idle"
    /\ \E b \in ApiBodies :
          /\ http' = [http EXCEPT !.stage = "solving", !.method = "POST",
                                  !.path = "/solve", !.body = Some(b)]
          /\ req' = ApiSolveArgs(b)
    /\ pc' = "start"
    /\ UNCHANGED <<gram_vars, terms, weights, max_obj, cp_status, value,
                   solution, solver_calls, aux, bar>>

\* post_solve from the return of solve on.
PostSolveReturn ==
    /\ http.stage = "solving"
    /\ pc = "done"
    /\ http' = [http EXCEPT
                  !.stage = "responded", !.status_code = 200,
                  !.json = Some(ApiSolveResponse(TheVal(http.body),
                                                 TheVal(solution)))]
    /\ UNCHANGED <<req, pc, gram_vars, terms, weights, max_obj, cp_status,
                   value, solution, solver_calls, aux, bar>>

\* The server before a request arrives.
InitApi ==
    /\ req = Req(<<>>, 0, 0, <<>>, <<>>, <<>>, None, None, "depth")
    /\ pc = "idle"
    /\ gram_vars = <<>>
    /\ terms = <<>>
    /\ weights = <<>>
    /\ max_obj = <<>>
    /\ cp_status = "NONE"
    /\ value = None
    /\ solution = None
    /\ solver_calls = 0
    /\ aux = None
    /\ http = IdleHttp
    /\ bar = DefaultBar

NextApi ==
    \/ NotFound
    \/ MethodNotAllowed
    \/ GetFoods
    \/ PostSolveCall
    \/ ReturnEmpty
    \/ BuildModel
    \/ ComposeObjective
    \/ PassOverflowCheck
    \/ SolveOptimal
    \/ SolveFeasible
    \/ SolveInfeasible
    \/ SolveUnknown
    \/ ReturnInfeasible
    \/ ExtractSolution
    \/ PostSolveReturn

SpecApi == InitApi /\ [][NextApi]_vars

(***************************************************************************)
(* daily_chow.widgets: RangeBar and the inputs of its IngredientRow        *)
(***************************************************************************)
\* _bar_width: max(self.size.width, 10), for a bar at most 10 columns wide.
BarWidth == 10

\* _col_to_val: round(abs_min + col / (w - 1) * (abs_max - abs_min)),
\* clamped to [abs_min, abs_max].
ColToVal(b, col) ==
    LET w == BarWidth
        raw == b.abs_min + RoundHalfEven(col * (b.abs_max - b.abs_min), w - 1)
    IN  IF w <= 1 THEN b.abs_min
        ELSE Max2(b.abs_min, IF b.abs_max <= raw THEN b.abs_max ELSE raw)

RangeChanged(lo, hi) ==
    [type |-> "RangeChanged", range_min |-> lo, range_max |-> hi]

InputChanged == [type |-> "InputChanged", range_min |-> 0, range_max |-> 0]

\* _set_handle: min(value, range_max) or max(value, range_min), and a
\* RangeChanged message when a handle moved.
SetHandle(b, handle, val) ==
    LET nb == IF handle = "min"
              THEN [b EXCEPT !.range_min =
                        IF val <= b.range_max THEN val ELSE b.range_max]
              ELSE [b EXCEPT !.range_max = Max2(val, b.range_min)]
    IN  IF nb.range_min # b.range_min \/ nb.range_max # b.range_max
        THEN [nb EXCEPT !.queue =
                  Append(@, RangeChanged(nb.range_min, nb.range_max))]
        ELSE nb

\* The columns a mouse event can report; a captured mouse reports columns
\* outside the bar too.
MouseColumns == (0 - 1)..BarWidth

\* The texts a user can leave in an input of type integer.
InputTexts == {None} \cup {Some(n) : n \in (0 - 1)..(BarAbsMax + 1)}

\* The model follows the bar while its handles are within MaxOvershoot of
\* [abs_min, abs_max] and few messages wait.
Followed(b) ==
    /\ b.abs_min - MaxOvershoot <= b.range_min
    /\ b.range_min <= b.abs_max + MaxOvershoot
    /\ b.abs_min - MaxOvershoot <= b.range_max
    /\ b.range_max <= b.abs_max + MaxOvershoot

UserEventTaken == Len(bar.queue) <= MaxPending

BarStep(nb) ==
    /\ Followed(nb)
    /\ bar' = nb
    /\ UNCHANGED <<req, pc, gram_vars, terms, weights, max_obj, cp_status,
                   value, solution, solver_calls, aux, http>>

\* on_mouse_down
MouseDown ==
    /\ UserEventTaken
    /\ \E col \in MouseColumns :
          LET val == ColToVal(bar, col)
              dist_min == Abs(val - bar.range_min)
              dist_max == Abs(val - bar.range_max)
              h == IF dist_min <= dist_max THEN "min" ELSE "max"
          IN  BarStep(SetHandle([bar EXCEPT !.dragging = h,
                                            !.focused_handle = h], h, val))

\* on_mouse_move while a handle is dragged
MouseMove ==
    /\ UserEventTaken
    /\ bar.dragging # ""
    /\ \E col \in MouseColumns :
          BarStep(SetHandle(bar, bar.dragging, ColToVal(bar, col)))

\* on_mouse_up
MouseUp ==
    /\ UserEventTaken
    /\ bar.dragging # ""
    /\ BarStep([bar EXCEPT !.dragging = ""])

\* action_nudge(direction), bound to the left and right arrows
Nudge ==
    /\ UserEventTaken
    /\ \E direction \in {0 - 1, 1} :
          LET delta == bar.step * direction
              cur == IF bar.focused_handle = "min"
                     THEN bar.range_min ELSE bar.range_max
          IN  BarStep(SetHandle(bar, bar.focused_handle, cur + delta))

\* action_switch_handle
SwitchHandle ==
    /\ UserEventTaken
    /\ BarStep([bar EXCEPT !.focused_handle =
                    IF @ = "min" THEN "max" ELSE "min"])

\* The user edits the text of the min input; Input posts Changed.
EditMin ==
    /\ UserEventTaken
    /\ \E t \in InputTexts :
          /\ t # bar.min_input
          /\ BarStep([bar EXCEPT !.min_input = t,
                                 !.queue = Append(@, InputChanged)])

\* The user edits the text of the max input; Input posts Changed.
EditMax ==
    /\ UserEventTaken
    /\ \E t \in InputTexts :
          /\ t # bar.max_input
          /\ BarStep([bar EXCEPT !.max_input = t,
                                 !.queue = Append(@, InputChanged)])

\* IngredientRow._on_bar_changed: both inputs get the text of the new
\* values; an input whose value changes posts Changed.
OnBarChanged ==
    /\ bar.queue # <<>>
    /\ Head(bar.queue).type = "RangeChanged"
    /\ LET ev == Head(bar.queue)
           posts == (IF bar.min_input # Some(ev.range_min)
                     THEN <<InputChanged>> ELSE <<>>)
                    \o (IF bar.max_input # Some(ev.range_max)
                        THEN <<InputChanged>> ELSE <<>>)
       IN  BarStep([bar EXCEPT !.min_input = Some(ev.range_min),
                               !.max_input = Some(ev.range_max),
                               !.queue = Tail(@) \o posts])

\* IngredientRow.min_g: max(0, int(inp.value)), 0 on ValueError.
RowMinG(b) == IF b.min_input = None THEN 0 ELSE Max2(0, TheVal(b.min_input))

\* IngredientRow.max_g: max(0, int(inp.value)), _abs_max on ValueError.
RowMaxG(b) ==
    IF b.max_input = None THEN b.abs_max ELSE Max2(0, TheVal(b.max_input))

\* IngredientRow._on_input_changed: bar.range_min = self.min_g and
\* bar.range_max = self.max_g.
OnInputChanged ==
    /\ bar.queue # <<>>
    /\ Head(bar.queue).type = "InputChanged"
    /\ BarStep([bar EXCEPT !.range_min = RowMinG(bar),
                           !.range_max = RowMaxG(bar),
                           !.queue = Tail(@)])

\* A row composed with 0 <= min_g <= max_g <= abs_max.
InitBar ==
    /\ req = Req(<<>>, 0, 0, <<>>, <<>>, <<>>, None, None, "depth")
    /\ pc = "idle"
    /\ gram_vars = <<>>
    /\ terms = <<>>
    /\ weights = <<>>
    /\ max_obj = <<>>
    /\ cp_status = "NONE"
    /\ value = None
    /\ solution = None
    /\ solver_calls = 0
    /\ aux = None
    /\ http = IdleHttp
    /\ \E lo \in 0..BarAbsMax, hi \in 0..BarAbsMax :
          /\ lo <= hi
          /\ bar = NewBar(BarAbsMax, lo, hi)

NextBar ==
    \/ MouseDown
    \/ MouseMove
    \/ MouseUp
    \/ Nudge
    \/ SwitchHandle
    \/ EditMin
    \/ EditMax
    \/ OnBarChanged
    \/ OnInputChanged

SpecBar == InitBar /\ [][NextBar]_vars

(***************************************************************************)
(* Properties                                                              *)
(***************************************************************************)
\* The solver returned values for the gram variables.
HasValue == pc \in {"solved", "done"} /\ value # None

\* solve returned a Solution with status optimal or feasible.
ReturnedPlan ==
    /\ pc = "done"
    /\ solution # None
    /\ TheVal(solution).status \in {"optimal", "feasible"}

\* a is lexicographically smaller than b.
LexLess(a, b) ==
    \E k \in 1..Len(a) :
        /\ a[k] < b[k]
        /\ \A j \in 1..(k - 1) : a[j] = b[j]

RECURSIVE LowerTiersMax(_, _, _)
\* SUM of M_j * w_j over the tiers j > k.
LowerTiersMax(ts, ws, k) ==
    IF k >= Len(ts) THEN <<>>
    ELSE BigAdd(BigMulAdd(ws[k + 1], ts[k + 1].max, 0),
                LowerTiersMax(ts, ws, k + 1))

\* C1: every assignment that minimizes the weighted sum built by solve over
\* the feasible region is lexicographically minimal on (e_0, ..., e_{K-1}):
\* no feasible assignment is strictly smaller at some tier k and equal on
\* every tier before k.
C1_LexMinimal ==
    (pc = "solved" /\ cp_status = "OPTIMAL") =>
        \A y \in FeasibleSet(req) :
            ~LexLess(TermVector(req, terms, y),
                     TermVector(req, terms, TheVal(value)))

\* C2: with the weights computed by solve, every tier k has
\* w_k > SUM_{j>k} M_j * w_j.
C2_WeightsDominate ==
    pc \in {"composed", "checked", "raised", "solved"} =>
        \A k \in 1..Len(terms) :
            BigLess(LowerTiersMax(terms, weights, k), weights[k])

\* C3: a request whose SUM_k M_k * w_k is >= 2^62 is rejected before the
\* solver is invoked (no solver call, no Solution); whenever the solver is
\* invoked the bound is < 2^62.
C3_OverflowGuard ==
    /\ solver_calls > 0 => BigLess(max_obj, TWO_POW_62)
    /\ (pc \notin {"start", "built", "composed"}
            /\ BigLeq(TWO_POW_62, max_obj)) =>
          (pc = "raised" /\ solver_calls = 0 /\ solution = None
              /\ cp_status = "NONE" /\ value = None)
    /\ pc = "raised" => BigLeq(TWO_POW_62, max_obj)

\* C3 witness: a request was rejected by the overflow assertion.
C3_Witness ==
    pc = "raised" /\ BigLeq(TWO_POW_62, max_obj) /\ solver_calls = 0

\* C4: in a Solution with status optimal or feasible the reported grams of
\* every input entry lie in that entry's own [min_g, max_g], keys repeated
\* or not.
C4_BoundsRespected ==
    ReturnedPlan =>
        \A i \in Entries(req) :
            LET g == TheVal(solution).ingredients[i].grams
            IN  req.ingredients[i].min_g <= g /\ g <= req.ingredients[i].max_g

\* C5: in a Solution with status optimal or feasible the calories recomputed
\* from the unrounded densities are within cal_tolerance + 1 of the target
\* (compared in thousandths of a kcal).
C5_RealizedCalorieBand ==
    ReturnedPlan =>
        Abs(RealTotal(req, "calories_kcal_per_100g", TheVal(value))
                - req.targets.meal_calories_kcal * 1000)
            <= (req.targets.cal_tolerance + 1) * 1000

\* T_cal at x lies in [(target - tol) * S_MACRO, (target + tol) * S_MACRO].
InCalorieBand(r, x) ==
    LET T == TotalExpr(r, "calories_kcal_per_100g", x)
    IN  /\ (r.targets.meal_calories_kcal - r.targets.cal_tolerance) * SCALE <= T
        /\ T <= (r.targets.meal_calories_kcal + r.targets.cal_tolerance) * SCALE

\* The request has no constraint other than the gram bounds and the
\* calorie band.
OnlyCalories(r) ==
    /\ r.macro_constraints = <<>>
    /\ DOMAIN r.micro_uls = {}
    /\ DOMAIN r.micro_targets = {}
    /\ r.macro_ratio = None

\* C6: every assignment the solver may return has its scaled calorie total
\* in [(target - tol) * S_MACRO, (target + tol) * S_MACRO]; an assignment
\* within the gram bounds satisfies the calorie constraint exactly when its
\* total is in that interval, and a request with no other constraint is
\* proved infeasible only when no assignment is.
C6_ScaledCalorieBand ==
    /\ HasValue => InCalorieBand(req, TheVal(value))
    /\ pc = "built" =>
          \A x \in Assignments(req) : CalOK(req, x) <=> InCalorieBand(req, x)
    /\ (pc = "solved" /\ cp_status = "INFEASIBLE" /\ OnlyCalories(req)) =>
          \A x \in Assignments(req) : ~InCalorieBand(req, x)

\* C6 witness: the solver returned an assignment whose calorie total is
\* below the target, inside the band.
C6_Witness ==
    /\ pc = "solved"
    /\ value # None
    /\ TotalExpr(req, "calories_kcal_per_100g", TheVal(value))
          < req.targets.meal_calories_kcal * SCALE

\* C7: for every (key, ul_val) in micro_uls with ul_val > 0, every
\* assignment the solver may return has T_key <= round(ul_val * S_MICRO).
C7_ULCaps ==
    HasValue =>
        \A key \in DOMAIN req.micro_uls :
            req.micro_uls[key] > 0 =>
                NutrientExpr(req, key, TheVal(value))
                    <= MicroScaled(req.micro_uls[key])

\* C8: in a Solution with status optimal or feasible the nutrient total
\* computed from the unrounded densities is <= ul + 0.1 for every micro_ul
\* provided (compared in hundred-thousandths of a unit).
C8_RealizedUL ==
    ReturnedPlan =>
        \A key \in DOMAIN req.micro_uls :
            RealMicro(req, key, TheVal(value)) <= req.micro_uls[key] + 10000

\* C9: in a Solution with status optimal or feasible, for every hard gte
\* MacroConstraint with grams g the macro total computed from the unrounded
\* densities is >= g - 1 (compared in thousandths of a gram).
C9_RealizedFloor ==
    ReturnedPlan =>
        \A i \in 1..Len(req.macro_constraints) :
            LET mc == req.macro_constraints[i]
            IN  (mc.hard /\ mc.mode = "gte") =>
                    RealTotal(req, MacroField(mc.nutrient), TheVal(value))
                        >= (mc.grams - 1) * 1000

\* The request without its mode-none constraints.
WithoutNone(r) ==
    [r EXCEPT !.macro_constraints =
        SelectSeq(r.macro_constraints, LAMBDA c : c.mode # "none")]

\* C10: for each hard MacroConstraint on nutrient n with grams g, every
\* assignment the solver may return has T_n >= g * S_MACRO for gte,
\* T_n <= g * S_MACRO for lte and T_n = g * S_MACRO for eq; constraints with
\* mode none leave the feasible region unchanged.
C10_HardMacroSemantics ==
    /\ HasValue =>
          \A i \in 1..Len(req.macro_constraints) :
              LET mc == req.macro_constraints[i]
                  T == TotalExpr(req, MacroField(mc.nutrient), TheVal(value))
              IN  mc.hard =>
                      /\ mc.mode = "gte" => T >= mc.grams * SCALE
                      /\ mc.mode = "lte" => T <= mc.grams * SCALE
                      /\ mc.mode = "eq" => T = mc.grams * SCALE
    /\ pc = "built" => FeasibleSet(req) = FeasibleSet(WithoutNone(req))

\* C10 witness: the solver returned an assignment under a hard eq constraint
\* that is listed after a mode-none constraint.
C10_Witness ==
    /\ pc = "solved"
    /\ value # None
    /\ \E i, j \in 1..Len(req.macro_constraints) :
          /\ req.macro_constraints[i].hard
          /\ req.macro_constraints[i].mode = "none"
          /\ req.macro_constraints[j].hard
          /\ req.macro_constraints[j].mode = "eq"

\* C11: a soft MacroConstraint never causes infeasibility: every gram
\* assignment within the variable domains that satisfies the calorie band
\* and the hard macro constraints has values for the deviation variable in
\* [0, dev_bound] and the percentage variable in [0, PCT_SCALE] of every
\* soft constraint.
C11_SoftNeverInfeasible ==
    pc = "built" =>
        \A x \in Assignments(req) :
            (CalOK(req, x) /\ HardOK(req, x)) => LooseOK(req, x)

\* PRIORITY_MACRO_RATIO occurs in the priority list in use.
MacroTierListed(r) ==
    \E i \in 1..Len(Priorities(r)) : Priorities(r)[i] = PRIORITY_MACRO_RATIO

\* The objective has been composed.
Composed == pc \in {"composed", "checked", "raised", "solved"}

\* b is smaller than a at the terms named name and equal to a elsewhere.
SmallerOnlyAt(ts, a, b, name) ==
    /\ \E k \in 1..Len(ts) : ts[k].name = name /\ b[k] < a[k]
    /\ \A k \in 1..Len(ts) : ts[k].name # name => b[k] = a[k]

IsEmptyInfeasible(sol) ==
    /\ sol.status = "infeasible"
    /\ sol.ingredients = <<>>
    /\ sol.meal_calories_kcal = 0
    /\ sol.meal_protein_g = 0
    /\ sol.meal_fat_g = 0
    /\ sol.meal_carbs_g = 0
    /\ sol.meal_fiber_g = 0
    /\ sol.objective_value = None
    /\ DOMAIN sol.micro_totals = {}

\* C13: solve called with an empty ingredient list returns, whatever the
\* other arguments, a Solution with status infeasible, no ingredients, all
\* meal totals 0, objective_value None and empty micro_totals; no model is
\* built, no overflow check runs and the solver is not invoked.
C13_EmptyInput ==
    req.ingredients = <<>> =>
        /\ pc \in {"start", "done"}
        /\ gram_vars = <<>> /\ terms = <<>> /\ weights = <<>> /\ max_obj = <<>>
        /\ solver_calls = 0 /\ cp_status = "NONE" /\ value = None
        /\ pc = "done" =>
              solution # None /\ IsEmptyInfeasible(TheVal(solution))

\* C13 witness: an empty-input call that carried targets, a constraint and
\* a priority list has returned.
C13_Witness ==
    /\ pc = "done"
    /\ req.ingredients = <<>>
    /\ DOMAIN req.micro_targets # {}
    /\ req.macro_constraints # <<>>
    /\ req.priorities # None
    /\ solution # None

\* C14: whenever the solver ends with a status other than OPTIMAL or
\* FEASIBLE (proved infeasible, time limit with no incumbent, invalid model)
\* solve returns the same Solution: status infeasible, no ingredients, all
\* totals 0; and a returned Solution has ingredients only if the solver
\* ended OPTIMAL or FEASIBLE and the status is optimal or feasible.
C14_NoPlanReturn ==
    /\ (pc = "done" /\ solver_calls > 0
            /\ cp_status \notin {"OPTIMAL", "FEASIBLE"}) =>
          /\ cp_status \in {"INFEASIBLE", "UNKNOWN", "MODEL_INVALID"}
          /\ solution # None
          /\ IsEmptyInfeasible(TheVal(solution))
    /\ (pc = "done" /\ solution # None
            /\ TheVal(solution).ingredients # <<>>) =>
          /\ cp_status \in {"OPTIMAL", "FEASIBLE"}
          /\ TheVal(solution).status \in {"optimal", "feasible"}
    /\ (pc = "solved" /\ cp_status \notin {"OPTIMAL", "FEASIBLE"}) =>
          value = None

\* C14 witness: the time limit ended a run on a model that has solutions,
\* and solve returned.
C14_Witness ==
    /\ pc = "done"
    /\ cp_status = "UNKNOWN"
    /\ FeasibleSet(req) # {}
    /\ solution # None

RECURSIVE KeepFirst(_, _)
\* ps without the entries in seen and without repeats of an earlier entry.
KeepFirst(ps, seen) ==
    IF ps = <<>> THEN <<>>
    ELSE IF Head(ps) \in seen THEN KeepFirst(Tail(ps), seen)
    ELSE <<Head(ps)>> \o KeepFirst(Tail(ps), seen \cup {Head(ps)})

\* The request with only the first occurrence of each priority kept.
FirstOccurrences(r) ==
    [r EXCEPT !.priorities = Some(KeepFirst(Priorities(r), {}))]

KnownPriorities ==
    {PRIORITY_MICROS, PRIORITY_MACRO_RATIO, PRIORITY_INGREDIENT_DIVERSITY,
     PRIORITY_TOTAL_WEIGHT}

\* The request with the unknown priority entries removed.
KnownOnly(r) ==
    [r EXCEPT !.priorities =
        Some(SelectSeq(Priorities(r), LAMBDA p : p \in KnownPriorities))]

\* The request with the priority list [TOTAL_WEIGHT].
TotalWeightOnly(r) ==
    [r EXCEPT !.priorities = Some(<<PRIORITY_TOTAL_WEIGHT>>)]

\* The priority list in use yields no term.
NoTermListed(r) == ComposeTerms(r, Priorities(r)) = <<>>

\* C16: unknown priority entries produce no term (the terms are those of
\* the list without them), and when the priority list yields no term at
\* all the objective is the minimization of total grams: terms, weights and
\* overflow value are those of the list [TOTAL_WEIGHT], and an optimal plan
\* has the least total grams of the feasible region.
C16_UnknownAndFallback ==
    Composed =>
        /\ terms = Terms(KnownOnly(req))
        /\ NoTermListed(req) =>
              /\ terms = <<Term("total_grams", MaxTotal(req))>>
              /\ terms = Terms(TotalWeightOnly(req))
              /\ weights = <<BigOfNat(1)>>
              /\ max_obj = BigOfNat(MaxTotal(req))
              /\ (pc = "solved" /\ cp_status = "OPTIMAL") =>
                    \A y \in FeasibleSet(req) :
                        SumOver(Keys(req), TheVal(value))
                            <= SumOver(Keys(req), y)

\* C16 witness: an optimal plan for a priority list of unknown entries
\* only, on a model with more than one feasible assignment.
C16_Witness ==
    /\ pc = "solved"
    /\ cp_status = "OPTIMAL"
    /\ req.priorities # None
    /\ Len(Priorities(req)) > 0
    /\ \A i \in 1..Len(Priorities(req)) :
          Priorities(req)[i] \notin KnownPriorities
    /\ Cardinality(FeasibleSet(req)) > 1

\* The request has a single ingredient with min_g = max_g = 0.
SingleZeroIngredient(r) ==
    /\ Len(r.ingredients) = 1
    /\ r.ingredients[1].min_g = 0
    /\ r.ingredients[1].max_g = 0

\* C17 as stated: for a single ingredient with min_g = max_g = 0 solve
\* returns status infeasible unless the calorie target is 0, for every
\* cal_tolerance >= 0.
C17_ZeroIngredientInfeasible ==
    (SingleZeroIngredient(req) /\ req.targets.cal_tolerance >= 0
        /\ pc = "done" /\ req.targets.meal_calories_kcal # 0) =>
        TheVal(solution).status = "infeasible"

\* C17 amended: for a single ingredient with min_g = max_g = 0 and
\* cal_tolerance >= 0, solve returns status infeasible whenever the calorie
\* target exceeds the tolerance; a returned plan has 0 grams and a target
\* within the tolerance; and with no other constraint the model is proved
\* infeasible only when the target exceeds the tolerance.
C17_ZeroIngredientBand ==
    (SingleZeroIngredient(req) /\ req.targets.cal_tolerance >= 0) =>
        /\ (pc = "done"
                /\ Abs(req.targets.meal_calories_kcal)
                      > req.targets.cal_tolerance) =>
              TheVal(solution).status = "infeasible"
        /\ ReturnedPlan =>
              /\ Abs(req.targets.meal_calories_kcal)
                    <= req.targets.cal_tolerance
              /\ TheVal(solution).ingredients[1].grams = 0
        /\ (pc = "solved" /\ cp_status = "INFEASIBLE" /\ OnlyCalories(req)) =>
              Abs(req.targets.meal_calories_kcal) > req.targets.cal_tolerance

\* C17 witness: a plan was returned for a single ingredient with
\* min_g = max_g = 0 and a calorie target that is not 0.
C17_Witness ==
    /\ SingleZeroIngredient(req)
    /\ ReturnedPlan
    /\ req.targets.meal_calories_kcal # 0

\* The micro_targets and micro_uls keys that no ingredient carries.
UncarriedKeys(r) ==
    {key \in (DOMAIN r.micro_targets) \cup (DOMAIN r.micro_uls) :
        \A i \in Entries(r) : key \notin DOMAIN r.ingredients[i].food.micros}

\* The dict d without the keys in K.
WithoutDictKeys(d, K) == [k \in (DOMAIN d) \ K |-> d[k]]

\* The request without the keys in K in micro_targets and micro_uls.
WithoutMicroKeys(r, K) ==
    [r EXCEPT !.micro_targets = WithoutDictKeys(r.micro_targets, K),
              !.micro_uls = WithoutDictKeys(r.micro_uls, K)]

\* C18: a micro_targets or micro_uls key that no ingredient carries is
\* accepted: its total is 0 at every assignment, the feasible region is that
\* of the request without the key, and a kept target on it has percentage
\* shortfall MICRO_PCT (so worst_pct = MICRO_PCT) at every feasible
\* assignment, the returned one included.
C18_UncarriedKey ==
    LET U == UncarriedKeys(req)
    IN  /\ (pc = "built" /\ U # {}) =>
              /\ \A x \in Assignments(req) :
                    \A key \in U : NutrientExpr(req, key, x) = 0
              /\ FeasibleSet(req) = FeasibleSet(WithoutMicroKeys(req, U))
              /\ \A x \in FeasibleSet(req) :
                    \A key \in U \cap ActiveTargets(req) :
                        /\ PctShort(req, key, x) = MICRO_PCT
                        /\ WorstPct(req, x) = MICRO_PCT
        /\ (HasValue /\ U \cap ActiveTargets(req) # {}) =>
              WorstPct(req, TheVal(value)) = MICRO_PCT
        /\ (U # {} /\ req.ingredients # <<>>) => pc # "raised"

\* C18 witness: the solver returned an assignment for a request with a
\* target and a UL on a key that no ingredient carries.
C18_Witness ==
    /\ pc = "solved"
    /\ value # None
    /\ UncarriedKeys(req) \cap ActiveTargets(req) # {}
    /\ UncarriedKeys(req) \cap ULKeys(req) # {}

\* The micro_targets keys whose target_scaled is <= 0.
NonPositiveTargets(r) ==
    {key \in DOMAIN r.micro_targets : MicroScaled(r.micro_targets[key]) <= 0}

\* The request without those entries of micro_targets.
WithoutNonPositiveTargets(r) ==
    [r EXCEPT !.micro_targets =
        WithoutDictKeys(r.micro_targets, NonPositiveTargets(r))]

\* C19: a micro target with target_scaled <= 0 is dropped: the feasible
\* region, the terms, the weights and the objective value of a returned
\* plan are those of the request without the entry, also when micro_uls has
\* a positive UL for the same key.
C19_NonPositiveTargetDropped ==
    (Composed /\ NonPositiveTargets(req) # {}) =>
        LET q == WithoutNonPositiveTargets(req)
        IN  /\ FeasibleSet(req) = FeasibleSet(q)
            /\ terms = Terms(q)
            /\ weights = Weights(Terms(q))
            /\ HasValue =>
                  Objective(req, terms, weights, TheVal(value))
                      = Objective(q, Terms(q), Weights(Terms(q)),
                                  TheVal(value))

\* Some MacroConstraint with mode other than none names the nutrient.
Governed(r, nutrient) ==
    \E i \in 1..Len(r.macro_constraints) :
        /\ r.macro_constraints[i].mode # "none"
        /\ r.macro_constraints[i].nutrient = nutrient

\* The request without its constraints on fiber.
WithoutFiberConstraints(r) ==
    [r EXCEPT !.macro_constraints =
        SelectSeq(r.macro_constraints, LAMBDA c : c.nutrient # "fiber")]

\* C20 as stated, its last part: a macro governed by an active constraint
\* never influences the ratio objective: two assignments with the same
\* calories of every macro that takes part have the same macro_worst.
C20_ExcludedNeverInfluences ==
    (pc = "built" /\ req.macro_ratio # None) =>
        \A x, y \in Assignments(req) :
            (\A name \in RatioNames(req) :
                DayCal(req, name, x) = DayCal(req, name, y)) =>
                MacroWorst(req, x) = MacroWorst(req, y)

\* C20 amended: with a MacroRatio given, the deviation variable of a macro
\* in {carbs, protein, fat} takes part in macro_worst if and only if no
\* MacroConstraint with mode other than none (hard or soft, any grams)
\* names that nutrient; constraints on fiber exclude nothing; the returned
\* assignment's macro_worst is >= the deviation of every macro that takes
\* part and is reached by one of them; with all three macros governed
\* macro_worst is 0 at every assignment.  (The calories of a governed macro
\* still enter day_total_cal.)
C20_RatioExclusion ==
    req.macro_ratio # None =>
        /\ pc = "built" =>
              /\ \A name \in {"carb", "pro", "fat"} :
                    name \in RatioNames(req)
                        <=> ~Governed(req, RatioNutrient(name))
              /\ RatioNames(req) = RatioNames(WithoutFiberConstraints(req))
              /\ RatioNames(req) = {} =>
                    \A x \in Assignments(req) : MacroWorst(req, x) = 0
        /\ (HasValue /\ RatioNames(req) # {}) =>
              /\ \A name \in RatioNames(req) :
                    RatioPct(req, name, TheVal(value))
                        <= MacroWorst(req, TheVal(value))
              /\ \E name \in RatioNames(req) :
                    RatioPct(req, name, TheVal(value))
                        = MacroWorst(req, TheVal(value))

\* C20 witness: the solver returned an assignment for a request with a
\* MacroRatio, a soft constraint that governs one macro, and another macro
\* that takes part in the ratio.
C20_Witness ==
    /\ pc = "solved"
    /\ value # None
    /\ req.macro_ratio # None
    /\ RatioNames(req) # {}
    /\ \E i \in LooseIdx(req) :
          req.macro_constraints[i].nutrient \in {"carbs", "protein", "fat"}

\* The names of the terms a MICROS entry emits.
MicroTermNames == {"worst_ul_prox", "worst_pct", "micro_pct_sum"}

\* The priority that emits the term named name.
TierOf(name) ==
    CASE name \in MicroTermNames -> PRIORITY_MICROS
      [] name = "combined_macro" -> PRIORITY_MACRO_RATIO
      [] name = "max_gram" -> PRIORITY_INGREDIENT_DIVERSITY
      [] name = "total_grams" -> PRIORITY_TOTAL_WEIGHT

\* The tiers of the terms, in term order, repeats of a neighbour dropped.
RECURSIVE TierRuns(_)
TierRuns(ts) ==
    IF Len(ts) = 0 THEN <<>>
    ELSE IF Len(ts) > 1 /\ TierOf(ts[1].name) = TierOf(ts[2].name)
    THEN TierRuns(Tail(ts))
    ELSE <<TierOf(ts[1].name)>> \o TierRuns(Tail(ts))

\* The sub-terms a MICROS entry has to emit, in order.
ExpectedMicroNames(r) ==
    LET ulp == IF ProxKeys(r) # {} THEN <<"worst_ul_prox">> ELSE <<>>
        wp == IF ActiveTargets(r) # {} THEN <<"worst_pct">> ELSE <<>>
        sp == IF ActiveTargets(r) # {} THEN <<"micro_pct_sum">> ELSE <<>>
    IN  ulp \o (IF r.micro_strategy = "breadth" THEN sp \o wp ELSE wp \o sp)

\* a is a subsequence of b.
RECURSIVE IsSubSeq(_, _)
IsSubSeq(a, b) ==
    IF a = <<>> THEN TRUE
    ELSE IF b = <<>> THEN FALSE
    ELSE IF Head(a) = Head(b) THEN IsSubSeq(Tail(a), Tail(b))
    ELSE IsSubSeq(a, Tail(b))

\* The terms follow the priority list in use (when the list yields a term)
\* and every run of MICROS terms is the expected sub-term sequence.
TermsInPriorityOrder(r, ts) ==
    /\ ~NoTermListed(r) =>
          IsSubSeq(TierRuns(ts),
                   SelectSeq(Priorities(r), LAMBDA p : p \in KnownPriorities))
    /\ \A i \in 1..Len(ts) :
          (ts[i].name \in MicroTermNames
              /\ (i = 1 \/ ts[i - 1].name \notin MicroTermNames)) =>
              LET e == ExpectedMicroNames(r)
              IN  /\ i + Len(e) - 1 <= Len(ts)
                  /\ \A k \in 1..Len(e) : ts[i + k - 1].name = e[k]
    /\ \A i \in 1..Len(ts) :
          /\ ts[i].name \in {"worst_ul_prox", "worst_pct"} =>
                ts[i].max = MICRO_PCT
          /\ ts[i].name = "micro_pct_sum" =>
                ts[i].max = Cardinality(ActiveTargets(r)) * MICRO_PCT

\* C21: the terms are appended in the order of the priority list, the
\* MICROS entry emits worst_ul_prox (bound 100), then worst_pct (100) and
\* the percentage sum (N * 100) in the order of the strategy, absent
\* witnesses omitted; a UL-proximity term has a larger weight than the
\* coverage terms after it, and every term has a weight >= that of every
\* later term.
C21_TermOrder ==
    Composed =>
        /\ TermsInPriorityOrder(req, terms)
        /\ \A i, j \in 1..Len(terms) :
              i < j =>
                  /\ BigLeq(weights[j], weights[i])
                  /\ (terms[i].name = "worst_ul_prox"
                          /\ terms[j].name \in {"worst_pct", "micro_pct_sum"}) =>
                        BigLess(weights[j], weights[i])

\* The request r with the priority list ps.
WithPriorities(r, ps) == [r EXCEPT !.priorities = Some(ps)]

\* The bound of the objective solve composes for r.
MaxObjOf(r) == MaxObj(Terms(r), Weights(Terms(r)))

\* The plans a run on r with the priority list ps may return as optimal.
OptimaUnder(r, ps) ==
    LET q == WithPriorities(r, ps)
    IN  OptimalSet(q, Terms(q), Weights(Terms(q)))

\* r is feasible, has micro targets, and solve reaches the solver under
\* both priority lists.
Comparable(r, ps1, ps2) ==
    /\ r.ingredients # <<>>
    /\ DOMAIN r.micro_targets # {}
    /\ FeasibleSet(r) # {}
    /\ ~Overflow(MaxObjOf(WithPriorities(r, ps1)))
    /\ ~Overflow(MaxObjOf(WithPriorities(r, ps2)))

WeightFirst == <<PRIORITY_TOTAL_WEIGHT, PRIORITY_MICROS>>

MicrosFirst == <<PRIORITY_MICROS, PRIORITY_TOTAL_WEIGHT>>

\* C22: for a feasible request with micro targets, every optimal plan under
\* [TOTAL_WEIGHT, MICROS] has the least total grams of the feasible region,
\* and so no more grams than any optimal plan under [MICROS, TOTAL_WEIGHT].
C22_WeightFirstMinimal ==
    (pc = "built" /\ Comparable(req, WeightFirst, MicrosFirst)) =>
        \A a \in OptimaUnder(req, WeightFirst) :
            /\ \A y \in FeasibleSet(req) :
                  TermValue(req, "total_grams", a)
                      <= TermValue(req, "total_grams", y)
            /\ \A b \in OptimaUnder(req, MicrosFirst) :
                  TermValue(req, "total_grams", a)
                      <= TermValue(req, "total_grams", b)

\* C23: for a feasible request with micro targets and either strategy, the
\* sum of the percentage shortfalls of an optimal plan under
\* [MICROS, TOTAL_WEIGHT] is <= that of an optimal plan under
\* [TOTAL_WEIGHT, MICROS].
C23_MicrosFirstCoverage ==
    (pc = "built" /\ Comparable(req, WeightFirst, MicrosFirst)) =>
        \A a \in OptimaUnder(req, MicrosFirst) :
            \A b \in OptimaUnder(req, WeightFirst) :
                MicroPctSum(req, a) <= MicroPctSum(req, b)

\* The coverage measure the strategy puts first: the sum of the percentage
\* shortfalls for breadth, the worst percentage shortfall for depth.
PrimaryCoverage(r, x) ==
    IF r.micro_strategy = "breadth" THEN MicroPctSum(r, x) ELSE WorstPct(r, x)

\* C23 (amended): for a feasible request with micro targets and no
\* UL-proximity term, the coverage measure the strategy puts first is, for an
\* optimal plan under [MICROS, TOTAL_WEIGHT], <= that of an optimal plan under
\* [TOTAL_WEIGHT, MICROS].
C23_PrimaryCoverage ==
    (pc = "built" /\ Comparable(req, WeightFirst, MicrosFirst)
        /\ ProxKeys(req) = {}) =>
        \A a \in OptimaUnder(req, MicrosFirst) :
            \A b \in OptimaUnder(req, WeightFirst) :
                PrimaryCoverage(req, a) <= PrimaryCoverage(req, b)

\* C23 witness: a request without UL-proximity term whose optimal plan under
\* [MICROS, TOTAL_WEIGHT] covers strictly better than the one under
\* [TOTAL_WEIGHT, MICROS].
C23_Witness ==
    /\ pc = "built"
    /\ Comparable(req, WeightFirst, MicrosFirst)
    /\ ProxKeys(req) = {}
    /\ \E a \in OptimaUnder(req, MicrosFirst) :
          \E b \in OptimaUnder(req, WeightFirst) :
              PrimaryCoverage(req, a) < PrimaryCoverage(req, b)

WithDiversity ==
    <<PRIORITY_MICROS, PRIORITY_MACRO_RATIO, PRIORITY_INGREDIENT_DIVERSITY,
      PRIORITY_TOTAL_WEIGHT>>

WithoutDiversity ==
    <<PRIORITY_MICROS, PRIORITY_MACRO_RATIO, PRIORITY_TOTAL_WEIGHT>>

\* C24: for a feasible request, the worst percentage shortfall and the sum
\* of the percentage shortfalls of an optimal plan under [MICROS,
\* MACRO_RATIO, INGREDIENT_DIVERSITY, TOTAL_WEIGHT] equal those of an optimal
\* plan under [MICROS, MACRO_RATIO, TOTAL_WEIGHT].
C24_LowerTierAdded ==
    (pc = "built" /\ req.ingredients # <<>> /\ FeasibleSet(req) # {}
        /\ ~Overflow(MaxObjOf(WithPriorities(req, WithDiversity)))
        /\ ~Overflow(MaxObjOf(WithPriorities(req, WithoutDiversity)))) =>
        \A a \in OptimaUnder(req, WithDiversity) :
            \A b \in OptimaUnder(req, WithoutDiversity) :
                /\ WorstPct(req, a) = WorstPct(req, b)
                /\ MicroPctSum(req, a) = MicroPctSum(req, b)

\* The invariants of the data model: 0 <= min_g <= max_g, cal_tolerance >= 0
\* and well-formed macro constraints.
ValidRequest(r) ==
    /\ \A i \in Entries(r) :
          /\ 0 <= r.ingredients[i].min_g
          /\ r.ingredients[i].min_g <= r.ingredients[i].max_g
    /\ r.targets.cal_tolerance >= 0
    /\ \A i \in DOMAIN r.macro_constraints :
          /\ r.macro_constraints[i].nutrient
                \in {"protein", "fat", "carbs", "fiber"}
          /\ r.macro_constraints[i].mode \in {"gte", "lte", "eq", "none"}
          /\ r.macro_constraints[i].grams >= 0

\* C25: for a request that satisfies the invariants of the data model no
\* exception leaves solve; a call that ends returns a Solution whose status
\* is optimal, feasible or infeasible.
C25_NoException ==
    ValidRequest(req) =>
        /\ pc # "raised"
        /\ pc = "done" =>
              /\ solution # None
              /\ TheVal(solution).status
                    \in {"optimal", "feasible", "infeasible"}

\* The request r without its macro ratio.
WithoutRatio(r) == [r EXCEPT !.macro_ratio = None]

\* C28: a macro ratio (percentages summing to 100, pinned grams >= 0) never
\* changes feasibility: every gram assignment that satisfies the constraints
\* of the request without the ratio has values of the ratio's diff, abs and
\* pct_dev variables inside their domains.
C28_RatioPurelySoft ==
    (pc = "built" /\ req.macro_ratio # None
        /\ TheVal(req.macro_ratio).carb_pct
              + TheVal(req.macro_ratio).protein_pct
              + TheVal(req.macro_ratio).fat_pct = 100) =>
        \A x \in Assignments(req) :
            Feasible(WithoutRatio(req), x) => RatioOK(req, x)

\* C26: the application answers GET /health with status code 200 and the
\* JSON body {"status": "ok"}.
C26_HealthOk ==
    (http.stage = "responded" /\ http.method = "GET"
        /\ http.path = "/health") =>
        /\ http.status_code = 200
        /\ http.json = Some([status |-> "ok"])

C30_HandlesOrderedInRange ==
    bar.queue = <<>> =>
        /\ bar.abs_min <= bar.range_min
        /\ bar.range_min <= bar.range_max
        /\ bar.range_max <= bar.abs_max

\* p is the least integer in [0, 100] with
\* p * target_scaled >= 100 * max(0, target_scaled - total).
LeastPct(r, k, x, p) ==
    LET target == MicroScaled(r.micro_targets[k])
        short == Max2(0, target - NutrientExpr(r, k, x))
    IN  /\ p \in 0..100
        /\ p * target >= 100 * short
        /\ p > 0 => (p - 1) * target < 100 * short

MicrosListed(r) ==
    \E i \in DOMAIN Priorities(r) : Priorities(r)[i] = PRIORITY_MICROS

\* C27: when MICROS is in the priority list, in every optimal solution each
\* pct_short is the least integer percentage covering the real shortfall of
\* its nutrient at the chosen grams, and worst_pct is the maximum of the
\* pct_short values.
C27_PenaltiesExact ==
    (pc = "solved" /\ cp_status = "OPTIMAL" /\ aux # None
        /\ MicrosListed(req)) =>
        LET a == TheVal(aux)
            x == TheVal(value)
        IN  /\ DOMAIN a.pct_short = ActiveTargets(req)
            /\ \A k \in ActiveTargets(req) :
                  LeastPct(req, k, x, a.pct_short[k])
            /\ ActiveTargets(req) # {} =>
                  /\ a.worst_pct # None
                  /\ TheVal(a.worst_pct)
                        = MaxOver(ActiveTargets(req), a.pct_short)

\* C27 witness: an optimal solution under a list with MICROS in which a
\* targeted nutrient is short by a percentage strictly between 0 and 100.
C27_Witness ==
    /\ pc = "solved" /\ cp_status = "OPTIMAL" /\ aux # None
    /\ MicrosListed(req)
    /\ \E k \in ActiveTargets(req) :
          /\ TheVal(aux).pct_short[k] > 0
          /\ TheVal(aux).pct_short[k] < 100

=============================================================================
